---- MODULE Spec2Model ----
(***************************************************************************)
(* A model of the science-slideshow weather display:                       *)
(*   - the WeatherDisplay component (theme classification, theme           *)
(*     application, particle-system timers, celestial positioning,         *)
(*     readouts and alert polling),                                        *)
(*   - the ephemeris helper getSunTimes,                                   *)
(*   - the weather fetch path (server cache, /api/weather, the slideshow   *)
(*     page and the standalone weather page).                              *)
(*                                                                         *)
(* Units.  Hours are integers in hundredths of an hour (6.75 h = 675), so  *)
(* the code's margins 0.33, 0.83, 1.5 and 0.5 are 33, 83, 150 and 50.      *)
(* Precipitation rates are hundredths of an inch per hour (0.08 = 8).      *)
(* Opacities are thousandths, rounded up, so "alpha > 0" is exact.         *)
(* An optional value (a field that may be null/undefined) is a sequence:   *)
(* Null is <<>> and a present value v is <<v>>.                            *)
(***************************************************************************)
EXTENDS Integers, Sequences, FiniteSets, TLC

VARIABLES
    wx,       \* the WeatherDisplay component: script state, DOM, pending timers
    props,    \* the component's props: data, timeOverride
    clock,    \* the wall clock, hundredths of an hour in 0..2399
    sunCalc,  \* the ephemeris quantities of today at the station (per rise/set)
    probe,    \* results of the classification functions applied to the inputs
    page,     \* the pages that own the observation handed to the display
    server    \* the server's weather cache and the upstream API's condition

vars == <<wx, props, clock, sunCalc, probe, page, server>>

\* ------------------------------------------------------------------ bounds

\* Spacing of the sampled hours of the day (hundredths of an hour).
HourStep == 25
\* Spacing of the sampled sunrise/sunset times (hundredths of an hour).
SunStep == 200
\* Alert polls that may be in flight at once.
MaxAlertsInFlight == 2
\* The highest wind speed rendered (mph).
MaxWind == 60
\* Features an alert response may carry.
MaxAlerts == 2
\* Treeline rebuild timers that may be pending at once.
MaxTreeQ == 1
\* Weather loads a page may have in flight at once.
MaxLoadsInFlight == 2
\* Hours the image server's clock may reach.
MaxNow == 5

\* ------------------------------------------------------------ basic values

Null == <<>>
Some(v) == <<v>>
Val(o) == o[1]
IsNull(o) == o = Null

Min2(a, b) == IF a <= b THEN a ELSE b
Max2(a, b) == IF a >= b THEN a ELSE b

\* JavaScript's % : the result takes the sign of the dividend.
JsMod(a, n) == IF a >= 0 THEN a % n ELSE -((-a) % n)

\* ceil(a / b) for b > 0.
CeilDiv(a, b) == -((-a) \div b)

DayLen == 2400

SkyThemes == {"rise", "day", "golden", "sunset", "night"}
PrecipThemes == {"rain", "storm", "snow"}

\* ------------------------------------------------------------- observation

\* A WeatherData object, flattened: the `imperial` sub-object's fields sit
\* beside the others (a missing `imperial` is all of its fields missing).
MkObs(lat, lon, rate, temp, gust, wind, hum, uv, wdir) ==
    [lat |-> lat, lon |-> lon, precipRate |-> rate, temp |-> temp,
     windGust |-> gust, windSpeed |-> wind, humidity |-> hum, uv |-> uv,
     winddir |-> wdir]

\* The empty object {} (what the standalone page stores when a fetch throws).
EmptyObs == MkObs(Null, Null, Null, Null, Null, Null, Null, Null, Null)

\* --------------------------------------------------------------- ephemeris

\* calc(isSunrise): null when cos H is outside [-1, 1] (the sun does not cross
\* the horizon), otherwise the local time wrapped into [0, 24).  cosH is in
\* hundredths; t is T - lngHour + localOffsetHours in hundredths of an hour.
Calc(cosH, t) ==
    IF cosH > 100 \/ cosH < -100 THEN Null
    ELSE Some((JsMod(t, DayLen) + DayLen) % DayLen)

\* getSunTimes(lat, lon) for the quantities c of today at that place.
GetSunTimes(c) ==
    [sunrise |-> Calc(c.riseCosH, c.riseT), sunset |-> Calc(c.setCosH, c.setT)]

\* The hour the code classifies and positions with.
HourNow(timeOverride, wall) == IF IsNull(timeOverride) THEN wall ELSE Val(timeOverride)

\* -------------------------------------------------------- theme classifier

\* The fixed thresholds used without coordinates or without sun times.
FixedSky(h) ==
    IF h >= 500 /\ h < 700 THEN "rise"
    ELSE IF h >= 700 /\ h < 1700 THEN "day"
    ELSE IF h >= 1700 /\ h < 1900 THEN "golden"
    ELSE IF h >= 1900 /\ h < 2100 THEN "sunset"
    ELSE "night"

\* The bucketing as it would be with the tests in the opposite order.
SunSkyLastMatch(h, sunrise, sunset) ==
    IF h >= sunset - 50 /\ h < sunset + 50 THEN "sunset"
    ELSE IF h >= sunset - 150 /\ h < sunset - 50 THEN "golden"
    ELSE IF h >= sunrise + 83 /\ h < sunset - 150 THEN "day"
    ELSE IF h >= sunrise - 33 /\ h < sunrise + 83 THEN "rise"
    ELSE "night"

\* The bucketing of h against sunrise/sunset: the first matching test wins.
SunSky(h, sunrise, sunset) ==
    IF h >= sunrise - 33 /\ h < sunrise + 83 THEN "rise"
    ELSE IF h >= sunrise + 83 /\ h < sunset - 150 THEN "day"
    ELSE IF h >= sunset - 150 /\ h < sunset - 50 THEN "golden"
    ELSE IF h >= sunset - 50 /\ h < sunset + 50 THEN "sunset"
    ELSE "night"

\* inferSkyTheme(w) as it would be if a missing sunset defaulted to 18:00
\* and a missing sunrise to 6:00.
InferSkyThemeDefaultTimes(w, h, c) ==
    LET st == GetSunTimes(c) IN
    IF ~IsNull(w.lat) /\ ~IsNull(w.lon)
    THEN SunSky(h, IF IsNull(st.sunrise) THEN 600 ELSE Val(st.sunrise),
                   IF IsNull(st.sunset) THEN 1800 ELSE Val(st.sunset))
    ELSE FixedSky(h)

\* inferSkyTheme(w): the time-of-day theme, ignoring precipitation.
InferSkyTheme(w, h, c) ==
    LET st == GetSunTimes(c) IN
    IF ~IsNull(w.lat) /\ ~IsNull(w.lon) /\ ~IsNull(st.sunrise) /\ ~IsNull(st.sunset)
    THEN SunSky(h, Val(st.sunrise), Val(st.sunset))
    ELSE FixedSky(h)

\* inferTheme(w) as it would be if only the gust made a storm.
InferThemeGustOnly(w, h, c) ==
    IF ~IsNull(w.precipRate) /\ Val(w.precipRate) > 0
    THEN IF ~IsNull(w.temp) /\ Val(w.temp) <= 33 THEN "snow"
         ELSE IF ~IsNull(w.windGust) /\ Val(w.windGust) > 20 THEN "storm"
         ELSE "rain"
    ELSE InferSkyTheme(w, h, c)

\* inferTheme(w): precipitation first, then its own copy of the sky buckets.
InferTheme(w, h, c) ==
    LET rate == w.precipRate
        temp == w.temp
        gust == w.windGust
        st == GetSunTimes(c)
    IN
    IF ~IsNull(rate) /\ Val(rate) > 0
    THEN IF ~IsNull(temp) /\ Val(temp) <= 33 THEN "snow"
         ELSE IF (~IsNull(gust) /\ Val(gust) > 20) \/ Val(rate) > 8 THEN "storm"
         ELSE "rain"
    ELSE IF ~IsNull(w.lat) /\ ~IsNull(w.lon)
            /\ ~IsNull(st.sunrise) /\ ~IsNull(st.sunset)
         THEN (IF h >= Val(st.sunrise) - 33 /\ h < Val(st.sunrise) + 83 THEN "rise"
               ELSE IF h >= Val(st.sunrise) + 83 /\ h < Val(st.sunset) - 150 THEN "day"
               ELSE IF h >= Val(st.sunset) - 150 /\ h < Val(st.sunset) - 50 THEN "golden"
               ELSE IF h >= Val(st.sunset) - 50 /\ h < Val(st.sunset) + 50 THEN "sunset"
               ELSE "night")
         ELSE (IF h >= 500 /\ h < 700 THEN "rise"
               ELSE IF h >= 700 /\ h < 1700 THEN "day"
               ELSE IF h >= 1700 /\ h < 1900 THEN "golden"
               ELSE IF h >= 1900 /\ h < 2100 THEN "sunset"
               ELSE "night")

\* ---------------------------------------------------- celestial positioner

\* A quotient n/d kept exact, with d >= 0; d = 0 stands for the JavaScript
\* results of a division by zero (+Infinity, -Infinity, or NaN when n = 0).
Frac(n, d) == IF d < 0 THEN [n |-> -n, d |-> -d] ELSE [n |-> n, d |-> d]

\* max(0, min(1, min(t / FADE, (1 - t) / FADE))) with FADE = 0.04, in
\* thousandths rounded up.  For an infinite t the inner min is -Infinity
\* (alpha 0); for NaN the result is NaN, which fails `alpha > 0` like 0.
FadeAlpha(t) ==
    IF t.d = 0 THEN 0
    ELSE Max2(0, Min2(1000, CeilDiv(25000 * Min2(t.n, t.d - t.n), t.d)))

\* t < -FADE * 2 || t > 1 + FADE * 2 (false for NaN).
BeyondFade(t) ==
    IF t.d = 0 THEN t.n # 0
    ELSE 100 * t.n < -8 * t.d \/ 100 * t.n > 108 * t.d

\* sunT = (h - sunrise) / (sunset - sunrise).
SunT(h, sunrise, sunset) == Frac(h - sunrise, sunset - sunrise)

\* moonT over [moonrise, moonset) = [sunset + 0.5, sunrise - 0.33), with the
\* code's explicit midnight wraparound; Null when h is outside the window.
MoonT(h, sunrise, sunset) ==
    LET moonrise == sunset + 50
        moonset == sunrise - 33
        moonDurHrs == JsMod(moonset - moonrise + DayLen, DayLen)
    IN
    IF moonrise < moonset
    THEN (IF h >= moonrise /\ h < moonset
          THEN Some(Frac(h - moonrise, moonDurHrs)) ELSE Null)
    ELSE (IF h >= moonrise THEN Some(Frac(h - moonrise, moonDurHrs))
          ELSE IF h < moonset THEN Some(Frac(h + DayLen - moonrise, moonDurHrs))
          ELSE Null)

\* The sun's opacity as it would be if precipitation did not force it to 0.
SunAlphaIgnoringPrecip(h, sunrise, sunset, isPrecip) ==
    FadeAlpha(SunT(h, sunrise, sunset))

SunAlpha(h, sunrise, sunset, isPrecip) ==
    IF isPrecip THEN 0 ELSE FadeAlpha(SunT(h, sunrise, sunset))

MoonAlpha(h, sunrise, sunset) ==
    LET mt == MoonT(h, sunrise, sunset) IN
    IF IsNull(mt) THEN 0 ELSE FadeAlpha(Val(mt))

\* The sun element's inline style after the SUN block.
PlaceSun(sun, h, sunrise, sunset, isPrecip) ==
    LET a == SunAlpha(h, sunrise, sunset, isPrecip) IN
    IF a > 0 THEN [display |-> "block", opacity |-> a]
    ELSE [display |-> IF BeyondFade(SunT(h, sunrise, sunset)) THEN "none"
                      ELSE sun.display,
          opacity |-> 0]

\* The moon element's inline style after the MOON block.
PlaceMoon(moon, h, sunrise, sunset, isPrecip) ==
    LET mt == MoonT(h, sunrise, sunset)
        a == MoonAlpha(h, sunrise, sunset)
    IN
    IF isPrecip THEN [moon EXCEPT !.display = "none"]
    ELSE IF a > 0 THEN [display |-> "block", opacity |-> a]
    ELSE [display |-> IF IsNull(mt) \/ BeyondFade(Val(mt)) THEN "none"
                      ELSE moon.display,
          opacity |-> 0]

\* positionCelestialBodies(w) on component state s: nothing happens without
\* coordinates or without both sun times.
PositionCelestialBodies(s, w, h, c) ==
    LET st == GetSunTimes(c) IN
    IF IsNull(w) THEN s
    ELSE IF IsNull(Val(w).lat) \/ IsNull(Val(w).lon) THEN s
    ELSE IF IsNull(st.sunrise) \/ IsNull(st.sunset) THEN s
    ELSE [s EXCEPT
            !.sun = PlaceSun(s.sun, h, Val(st.sunrise), Val(st.sunset), s.isPrecip),
            !.moon = PlaceMoon(s.moon, h, Val(st.sunrise), Val(st.sunset), s.isPrecip)]


\* ------------------------------------------------- component state and DOM

\* The component after construction, before onMount: the script's variables,
\* the inline styles / classes / text the script writes, and the browser's
\* pending callbacks it armed.  CSS gives the sun, the moon, the lightning
\* svg and the alert bar display:none and the flash overlay opacity 0.
WxInit ==
    [ mounted |-> FALSE,
      celestialData |-> Null,          \* _celestialData
      currentTheme |-> "",             \* _currentTheme
      isPrecip |-> FALSE,              \* _isPrecip
      animId |-> 0,
      lightningTimeout |-> 0,
      shootTimeout |-> 0,
      drops |-> 0,                     \* drops.length
      flakes |-> 0,                    \* flakes.length
      canvas |-> "",                   \* what is drawn on #wx-canvas ("": blank)
      \* the custom properties render() sets on the root: --haze-alpha and
      \* --uv-factor in thousandths, --wind-sway-dur in tenths of a second,
      \* --wind-sway-amp in tenths of a pixel
      hazeAlpha |-> Null, uvFactor |-> Null, swayDur |-> Null, swayAmp |-> Null,
      \* the children of #wx-particles the markup puts there
      anchors |-> {"wx-moon", "wx-sun-wrap"},
      \* container.className
      rootTheme |-> "", isPrecipClass |-> FALSE, hasAlert |-> FALSE,
      cond |-> "",                     \* key of the condition label shown
      skyPrev |-> "",                  \* theme whose gradient #wx-sky-prev holds
      treeFill |-> "",                 \* theme whose fill the treeline is drawn in
      treeFilter |-> "",               \* brightness filter of the tree canvas
      treeQ |-> << >>,                 \* pending 370 ms rebuild timers, in order
      svgDisplay |-> "none", svgOpacity |-> 0, bolts |-> FALSE,
      flash |-> 0,                     \* #wx-lflash opacity, hundredths
      tempFlash |-> FALSE,             \* #wx-temp colour forced by a flash
      sun |-> [display |-> "none", opacity |-> 0],
      moon |-> [display |-> "none", opacity |-> 0],
      stars |-> 0, fireflies |-> 0, mist |-> "", streaks |-> 0, shootStars |-> 0,
      timers |-> {},                   \* pending setTimeout callbacks
      frames |-> {},                   \* pending requestAnimationFrame callbacks
      alertsInFlight |-> 0,            \* fetchAlerts requests not yet settled
      alertBar |-> "none",             \* #wx-alert-bar display
      alertClass |-> "",               \* #wx-alert-bar className
      alertExtra |-> 0,                \* the "(+n more)" of the banner text
      readout |-> [temp |-> Null, hum |-> Null, wind |-> Null, gust |-> Null,
                   uv |-> Null, precip |-> Null, wdir |-> ""],
      sev |-> [temp |-> "", hum |-> "", wind |-> "", gust |-> "", uv |-> ""],
      \* history: whether render() has run, the hour of its last run, and
      \* whether that run called fetchAlerts
      rendered |-> FALSE, renderedAt |-> 0, polled |-> FALSE,
      \* history: the features of the alert response that was parsed last, and
      \* of the last one parsed that had an OK status
      lastAlert |-> Null, lastGoodAlert |-> Null ]

\* Timer kinds armed by the particle systems (lightning, shooting stars).
ParticleTimerKinds == {"strike", "flash2", "flashOff", "shoot"}

Timer(id, kind, br, last) ==
    [id |-> id, kind |-> kind, br |-> br, last |-> last, stale |-> FALSE]

\* Handles.  The browser never hands out a handle twice, so a handle whose
\* callback has fired or was cancelled matches no pending callback: clearing
\* it does nothing.  The model writes every such handle as 0 and gives a new
\* callback the lowest number no pending callback has.  Callbacks whose handle
\* the script does not keep (flash timers, shooting-star removal) have id 0.
LowestFree(used) == CHOOSE i \in 1..(Cardinality(used) + 1) :
                        i \notin used /\ \A j \in 1..(i - 1) : j \in used

FreshTimer(s) == LowestFree({t.id : t \in s.timers})

FreshFrame(s) == LowestFree({f.id : f \in s.frames})

\* handle = setTimeout(callback of `kind`, ...): the timer is pending.
SetTimeout(s, kind, br, last) ==
    [s EXCEPT !.timers = @ \cup {Timer(FreshTimer(s), kind, br, last)}]

\* setTimeout(...) with the handle dropped.
SetTimeoutNoHandle(s, kind, br, last) ==
    [s EXCEPT !.timers = @ \cup {Timer(0, kind, br, last)}]

\* clearTimeout(handle) / cancelAnimationFrame(handle); handle 0 is stale.
ClearTimeout(s, handle) ==
    [s EXCEPT !.timers = {t \in @ : handle = 0 \/ t.id # handle}]
CancelAnimationFrame(s, handle) ==
    [s EXCEPT !.frames = {f \in @ : handle = 0 \/ f.id # handle}]


\* --------------------------------------------------------- particle systems

\* initRain(heavy) / initSnow(): the pool is replaced by a new one.
InitRain(s, heavy) == [s EXCEPT !.drops = IF heavy THEN 320 ELSE 150]
InitSnow(s) == [s EXCEPT !.flakes = 200]

\* One run of animLoop's step(): draw (and move) the pool once, then request
\* the next frame and keep its handle in animId.
Step(s, type) ==
    LET id == FreshFrame(s) IN
    [s EXCEPT !.canvas = IF type \in {"rain", "storm", "snow"} THEN type ELSE @,
              !.frames = @ \cup {[id |-> id, type |-> type, stale |-> FALSE]},
              !.animId = id]

\* animLoop(type): step() runs once at once.
AnimLoop(s, type) == Step(s, type)

\* buildLightning(): show the svg and arm the first strike.
BuildLightning(s) ==
    LET id == FreshTimer(s) IN
    [SetTimeout(s, "strike", FALSE, FALSE) EXCEPT
        !.svgDisplay = "block", !.lightningTimeout = id]

\* doFlash(br, last): light the overlay and arm the timer that ends the flash.
DoFlash(s, br, last) ==
    SetTimeoutNoHandle([s EXCEPT !.flash = IF br THEN 62 ELSE 26, !.tempFlash = TRUE],
               "flashOff", br, last)

\* strike(): draw the bolts, flash once or twice, arm the next strike.
Strike(s, hasSecond) ==
    LET s1 == [s EXCEPT !.svgOpacity = 1, !.bolts = TRUE]
        s2 == DoFlash(s1, TRUE, ~hasSecond)
        s3 == IF hasSecond THEN SetTimeoutNoHandle(s2, "flash2", FALSE, FALSE) ELSE s2
        id == FreshTimer(s3)
    IN [SetTimeout(s3, "strike", FALSE, FALSE) EXCEPT !.lightningTimeout = id]

\* The callback as it would be if the bolts stayed until the next strike.
FlashOffKeepsBolts(s, last) ==
    [s EXCEPT !.flash = 0, !.tempFlash = FALSE]

\* The callback doFlash armed: end the flash; the last one removes the bolts.
FlashOff(s, last) ==
    [s EXCEPT !.flash = 0, !.tempFlash = FALSE,
              !.svgOpacity = IF last THEN 0 ELSE @,
              !.bolts = IF last THEN FALSE ELSE @]

\* buildStars(): 115 stars, then (re)arm the shooting-star scheduler.
BuildStars(s) ==
    LET s1 == [ClearTimeout([s EXCEPT !.stars = 115], s.shootTimeout)
                 EXCEPT !.shootTimeout = 0]
        id == FreshTimer(s1)
    IN [SetTimeout(s1, "shoot", FALSE, FALSE) EXCEPT !.shootTimeout = id]

\* shootStar(): add a streak, arm its removal, arm the next spawn.
ShootStar(s) ==
    LET s1 == SetTimeoutNoHandle([s EXCEPT !.shootStars = @ + 1],
                                 "shootRemove", FALSE, FALSE)
        id == FreshTimer(s1)
    IN [SetTimeout(s1, "shoot", FALSE, FALSE) EXCEPT !.shootTimeout = id]

BuildFireflies(s) == [s EXCEPT !.fireflies = 22]
BuildMist(s, theme) == [s EXCEPT !.mist = theme]

\* Math.round(Math.min(windSpeed / 2.5, 22)) for a whole windSpeed >= 0.
\* The streak count as it would be without the cap of 22.
StreakCountUncapped(windSpeed) == (4 * windSpeed + 5) \div 10

\* Math.round(Math.min(windSpeed / 2.5, 22)) for a whole number of mph.
StreakCount(windSpeed) ==
    IF 2 * windSpeed >= 5 * 22 THEN 22 ELSE (4 * windSpeed + 5) \div 10

\* buildWindStreaks(windSpeed): old streaks removed, none below 5 mph.
BuildWindStreaks(s, windSpeed) ==
    [s EXCEPT !.streaks = IF windSpeed < 5 THEN 0 ELSE StreakCount(windSpeed)]

\* clearParticles() as it would be without the two lines hiding the anchors.
ClearParticlesKeepAnchors(s) ==
    [s EXCEPT !.stars = 0, !.fireflies = 0, !.mist = "", !.streaks = 0,
              !.shootStars = 0]

\* clearParticles() as it would be if it emptied #wx-particles.
ClearParticlesAll(s) ==
    [s EXCEPT !.stars = 0, !.fireflies = 0, !.mist = "", !.streaks = 0,
              !.shootStars = 0, !.anchors = {},
              !.moon = [@ EXCEPT !.display = "none"],
              !.sun = [@ EXCEPT !.display = "none"]]

\* clearParticles(): every child of #wx-particles but the sun and the moon
\* goes; the two anchors are hidden.
ClearParticles(s) ==
    [s EXCEPT !.stars = 0, !.fireflies = 0, !.mist = "", !.streaks = 0,
              !.shootStars = 0,
              !.anchors = {id \in @ : ~(id # "wx-moon" /\ id # "wx-sun-wrap")},
              !.moon = [@ EXCEPT !.display = "none"],
              !.sun = [@ EXCEPT !.display = "none"]]

\* applyParticlesAndLighting as it would be if the night sky were tested before
\* the precipitation: stars and fireflies at night whatever falls.
ApplyParticlesSkyFirst(s, precipTheme, skyTheme, windSpeed) ==
    LET s0 == IF skyTheme = "night" THEN BuildFireflies(BuildStars(s)) ELSE s
        s1 ==
          IF precipTheme = "rain" THEN AnimLoop(InitRain(s0, FALSE), "rain")
          ELSE IF precipTheme = "storm"
               THEN BuildLightning(AnimLoop(InitRain(s0, TRUE), "storm"))
          ELSE IF precipTheme = "snow" THEN AnimLoop(InitSnow(s0), "snow")
          ELSE IF skyTheme \in {"rise", "golden", "sunset"} THEN BuildMist(s0, skyTheme)
          ELSE s0
    IN IF precipTheme \notin {"rain", "storm", "snow"}
       THEN BuildWindStreaks(s1, windSpeed) ELSE s1

\* applyParticlesAndLighting(precipTheme, skyTheme, windSpeed).
ApplyParticlesAndLighting(s, precipTheme, skyTheme, windSpeed) ==
    LET s1 ==
          IF precipTheme = "rain" THEN AnimLoop(InitRain(s, FALSE), "rain")
          ELSE IF precipTheme = "storm"
               THEN BuildLightning(AnimLoop(InitRain(s, TRUE), "storm"))
          ELSE IF precipTheme = "snow" THEN AnimLoop(InitSnow(s), "snow")
          ELSE IF skyTheme = "night" THEN BuildFireflies(BuildStars(s))
          ELSE IF skyTheme \in {"rise", "golden", "sunset"} THEN BuildMist(s, skyTheme)
          ELSE s
    IN IF precipTheme \notin {"rain", "storm", "snow"}
       THEN BuildWindStreaks(s1, windSpeed) ELSE s1

\* ------------------------------------------------------------- apply theme

\* The root class as it would be if keyed off the precipitation theme.
RootThemeClassPrecip(precipTheme, skyTheme) == precipTheme

\* The root class as it would be if rewriting it lost has-alert.
RootHasAlertDropped(s) == FALSE

\* Whether the rewritten root class carries has-alert: it does if the old did.
RootHasAlert(s) == s.hasAlert

\* The class the root gets for its sky: t-<theme>.
RootThemeClass(precipTheme, skyTheme) == skyTheme

\* The treeline's theme as it would be if keyed off the precipitation theme.
TreelineThemePrecip(precipTheme, skyTheme) == precipTheme

\* The theme the treeline is filled in.
TreelineTheme(precipTheme, skyTheme) == skyTheme

\* treeCanvas.style.filter once the treeline is drawn.
TreeBrightness(isPrecip) == IF isPrecip THEN "brightness(0.45)" ELSE "brightness(1)"

\* The cancellation as it would be without cancelAnimationFrame(animId).
CancelTimersOnly(s) ==
    [ClearTimeout(ClearTimeout(s, s.lightningTimeout), s.shootTimeout)
       EXCEPT !.animId = 0, !.lightningTimeout = 0, !.shootTimeout = 0]

\* The handles applyTheme cancels before re-arming.
CancelArmed(s) ==
    [ClearTimeout(ClearTimeout(CancelAnimationFrame(s, s.animId), s.lightningTimeout),
                  s.shootTimeout)
       EXCEPT !.animId = 0, !.lightningTimeout = 0, !.shootTimeout = 0]

\* Callbacks still pending after the cancellation were armed before this
\* applyTheme call: they are marked, nothing else about them changes.
MarkStale(s) ==
    [s EXCEPT !.timers = {[t EXCEPT !.stale = TRUE] : t \in @},
              !.frames = {[f EXCEPT !.stale = TRUE] : f \in @}]

\* applyTheme(precipTheme, skyTheme, windSpeed) at hour h.
ApplyTheme(s, precipTheme, skyTheme, windSpeed, h, c) ==
    LET isPrecip == precipTheme \in {"rain", "storm", "snow"}
        themeChanged == s.currentTheme # "" /\ s.currentTheme # skyTheme
        \* cross-fade, _currentTheme, root class, condition label
        s1 == [s EXCEPT
                 !.isPrecip = isPrecip,
                 !.skyPrev = IF themeChanged THEN s.currentTheme ELSE @,
                 !.currentTheme = skyTheme,
                 !.rootTheme = RootThemeClass(precipTheme, skyTheme),
                 !.isPrecipClass = isPrecip,
                 !.hasAlert = RootHasAlert(s),
                 !.cond = precipTheme]
        \* treeline: dim and rebuild 370 ms later, or rebuild at once
        s2 == IF themeChanged
              THEN [s1 EXCEPT !.treeFilter = "brightness(0)",
                              !.treeQ = Append(@, TreelineTheme(precipTheme, skyTheme))]
              ELSE [s1 EXCEPT !.treeFill = TreelineTheme(precipTheme, skyTheme),
                              !.treeFilter = TreeBrightness(isPrecip)]
        s3 == [MarkStale(CancelArmed(s2)) EXCEPT !.canvas = ""]
        s4 == ClearParticles([s3 EXCEPT !.svgDisplay = "none"])
        s5 == ApplyParticlesAndLighting(s4, precipTheme, skyTheme, windSpeed)
    IN PositionCelestialBodies(s5, s5.celestialData, h, c)


\* -------------------------------------------------- readouts and severity

HumSev(x) == IF x >= 90 THEN "extreme" ELSE IF x >= 75 THEN "high"
             ELSE IF x <= 30 THEN "low" ELSE "mid"
UvSev(x) == IF x >= 8 THEN "extreme" ELSE IF x >= 6 THEN "high"
            ELSE IF x >= 3 THEN "mid" ELSE "low"
WindSev(x) == IF x >= 30 THEN "extreme" ELSE IF x >= 20 THEN "high"
              ELSE IF x >= 10 THEN "mid" ELSE "low"
TempSev(x) == IF x >= 100 THEN "extreme" ELSE IF x >= 86 THEN "high"
              ELSE IF x <= 32 THEN "low" ELSE "mid"

CompassPoints == <<"N", "NNE", "NE", "ENE", "E", "ESE", "SE", "SSE",
                   "S", "SSW", "SW", "WSW", "W", "WNW", "NW", "NNW">>

\* windDir(deg): the point at index Math.round(deg / 22.5) % 16.
WindDir(deg) == CompassPoints[(((4 * deg + 45) \div 90) % 16) + 1]

\* The text render() writes into each readout: the value, or Null for "--".
\* Observation values are whole numbers here, so Math.round and toFixed keep them.
SetReadouts(s, w) ==
    [s EXCEPT !.readout =
        [temp |-> w.temp, hum |-> w.humidity, wind |-> w.windSpeed,
         gust |-> w.windGust, uv |-> w.uv, precip |-> w.precipRate,
         wdir |-> IF ~IsNull(w.winddir) THEN WindDir(Val(w.winddir)) ELSE @.wdir]]

\* The data-sev attributes render() writes: only for the fields present.
SetSeverities(s, w) ==
    [s EXCEPT !.sev =
        [hum |-> IF ~IsNull(w.humidity) THEN HumSev(Val(w.humidity)) ELSE @.hum,
         wind |-> IF ~IsNull(w.windSpeed) THEN WindSev(Val(w.windSpeed)) ELSE @.wind,
         gust |-> IF ~IsNull(w.windGust) THEN WindSev(Val(w.windGust)) ELSE @.gust,
         uv |-> IF ~IsNull(w.uv) THEN UvSev(Val(w.uv)) ELSE @.uv,
         temp |-> IF ~IsNull(w.temp) THEN TempSev(Val(w.temp)) ELSE @.temp]]

\* ------------------------------------------------------------------ render

\* fetchAlerts(lat, lon): one more request in flight.
FetchAlerts(s) == [s EXCEPT !.alertsInFlight = @ + 1, !.polled = TRUE]

\* Whether render(w) polls the alerts.
WantsAlerts(w) == ~IsNull(w.lat) /\ ~IsNull(w.lon)

\* render(w) as it would be if one theme, inferTheme's, drove sky and particles.
RenderOneTheme(s, w, h, c) ==
    LET s1 == SetSeverities(SetReadouts(s, w), w)
        windSpeed == IF IsNull(w.windSpeed) THEN 0 ELSE Val(w.windSpeed)
        s2 == [s1 EXCEPT !.celestialData = Some(w), !.rendered = TRUE,
                         !.renderedAt = h, !.polled = FALSE]
        theme == InferTheme(w, h, c)
        s3 == ApplyTheme(s2, theme, theme, windSpeed, h, c)
    IN IF WantsAlerts(w) THEN FetchAlerts(s3) ELSE s3

\* n / d rounded to the nearest whole number, halves away from zero: what
\* toFixed does to a quotient scaled to its last digit (d > 0).
RoundDiv(n, d) ==
    IF n >= 0 THEN (2 * n + d) \div (2 * d) ELSE 0 - ((2 * (0 - n) + d) \div (2 * d))

\* (Math.max(0, (humidity - 40) / 60) * 0.2).toFixed(3), 0 for null: thousandths.
HazeAlpha(humidity) ==
    IF IsNull(humidity) THEN 0
    ELSE IF Val(humidity) - 40 <= 0 THEN 0
    ELSE RoundDiv((Val(humidity) - 40) * 200, 60)

\* Math.min(uv / 11, 1).toFixed(3), 0 for null: thousandths.
UvFactor(uv) ==
    IF IsNull(uv) THEN 0
    ELSE IF Val(uv) >= 11 THEN 1000
    ELSE RoundDiv(Val(uv) * 1000, 11)

\* Math.max(2.0, 9.0 - (windSpeed / 35) * 7).toFixed(1): tenths of a second.
SwayDur(windSpeed) == Max2(20, RoundDiv((9 * 35 - 7 * windSpeed) * 10, 35))

\* Math.min(windSpeed / 5, 8).toFixed(1): tenths of a pixel.
SwayAmp(windSpeed) == Min2(RoundDiv(windSpeed * 10, 5), 80)

\* render(w) with the hour h the clock (or the override) gives.
Render(s, w, h, c) ==
    LET s1 == SetSeverities(SetReadouts(s, w), w)
        windSpeed == IF IsNull(w.windSpeed) THEN 0 ELSE Val(w.windSpeed)
        s2 == [s1 EXCEPT !.hazeAlpha = Some(HazeAlpha(w.humidity)),
                         !.uvFactor = Some(UvFactor(w.uv)),
                         !.swayDur = Some(SwayDur(windSpeed)),
                         !.swayAmp = Some(SwayAmp(windSpeed)),
                         !.celestialData = Some(w), !.rendered = TRUE,
                         !.renderedAt = h, !.polled = FALSE]
        precipTheme == InferTheme(w, h, c)
        skyTheme == InferSkyTheme(w, h, c)
        s3 == ApplyTheme(s2, precipTheme, skyTheme, windSpeed, h, c)
    IN IF WantsAlerts(w) THEN FetchAlerts(s3) ELSE s3

\* tickClock(): the clock text, then the sun and the moon are repositioned.
TickClockFn(s, h, c) == PositionCelestialBodies(s, s.celestialData, h, c)

\* The resize handler: resizeCanvas() sets the canvas's width and height,
\* which blanks it; the treeline is redrawn in the root's t-<theme> class.
OnResizeFn(s) ==
    LET s1 == [s EXCEPT !.canvas = ""] IN
    IF s.rootTheme # "" THEN [s1 EXCEPT !.treeFill = s.rootTheme] ELSE s1

\* ------------------------------------------------------------ alert banner

\* One feature of an alert response: its properties' status and severity
\* (a missing severity is "").
Feature(status, severity) == [status |-> status, severity |-> severity]

\* The ord table of fetchAlerts.
AlertOrd == [Extreme |-> 0, Severe |-> 1, Moderate |-> 2, Minor |-> 3, Unknown |-> 4]

\* The table's rank of a severity, 4 for one it does not list.
SeverityRank(sev) == IF sev \in DOMAIN AlertOrd THEN AlertOrd[sev] ELSE 4

\* The sort key of a feature: ord[severity] || 4, where a rank of 0 is falsy.
SortKey(f) ==
    IF f.severity \in DOMAIN AlertOrd /\ AlertOrd[f.severity] # 0
    THEN AlertOrd[f.severity] ELSE 4

\* feats.filter(...): the features whose status is "Actual", in order.
ActiveAlerts(feats) == SelectSeq(feats, LAMBDA f : f.status = "Actual")

\* Array.prototype.sort with the comparator of fetchAlerts: ascending by
\* sort key, features of equal key keeping their order.
RECURSIVE InsertAlert(_, _)
InsertAlert(sorted, f) ==
    IF sorted = << >> THEN <<f>>
    ELSE IF SortKey(f) < SortKey(Head(sorted)) THEN <<f>> \o sorted
    ELSE <<Head(sorted)>> \o InsertAlert(Tail(sorted), f)

RECURSIVE SortAlerts(_)
SortAlerts(active) ==
    IF active = << >> THEN << >>
    ELSE InsertAlert(SortAlerts(SubSeq(active, 1, Len(active) - 1)), active[Len(active)])

\* bar.className for the alert shown.
SevClass(p) ==
    CASE p.severity = "Extreme" -> "sev-extreme"
      [] p.severity = "Severe" -> "sev-severe"
      [] p.severity = "Moderate" -> "sev-moderate"
      [] p.severity = "Minor" -> "sev-minor"
      [] OTHER -> "sev-unknown"

\* The callback of fetchAlerts on the parsed response.
ShowAlerts(s, feats) ==
    LET active == ActiveAlerts(feats)
    IN IF Len(active) = 0
       THEN [s EXCEPT !.alertBar = "none", !.hasAlert = FALSE]
       ELSE LET p == Head(SortAlerts(active))
            IN [s EXCEPT !.alertClass = SevClass(p),
                         !.alertExtra = Len(active) - 1,
                         !.alertBar = "block", !.hasAlert = TRUE]

\* What an alert poll comes back with: the fetch or r.json() rejects (no
\* connection, a body that is not JSON); an error status with a JSON problem
\* body, which has no features; an OK status with a feature collection.
AlertThrow == [kind |-> "throw", ok |-> FALSE, features |-> Null]
AlertError == [kind |-> "json", ok |-> FALSE, features |-> Null]
AlertOk(feats) == [kind |-> "json", ok |-> TRUE, features |-> Some(feats)]

\* An alert poll settles: a rejection goes to the empty catch; a parsed body
\* goes to the callback, whatever the status: (data && data.features) || [].
AlertResponse(s, resp) ==
    IF resp.kind = "throw" THEN [s EXCEPT !.alertsInFlight = @ - 1]
    ELSE LET feats == IF IsNull(resp.features) THEN << >> ELSE Val(resp.features)
         IN [ShowAlerts(s, feats) EXCEPT
               !.alertsInFlight = @ - 1,
               !.lastAlert = Some(feats),
               !.lastGoodAlert = IF resp.ok THEN Some(feats) ELSE @]


\* ------------------------------------------------ inputs of the component

Lat == Some(39)
Lon == Some(-92)

\* Observations the display is given: dry with and without coordinates, rain
\* and a thunderstorm.
ObsDry == MkObs(Lat, Lon, Some(0), Some(60), Some(5), Some(4), Some(50), Some(3), Some(180))
ObsNoCoords == MkObs(Null, Null, Some(0), Some(60), Some(5), Some(4), Some(50), Some(3), Some(180))
ObsRain == MkObs(Lat, Lon, Some(2), Some(60), Some(5), Some(4), Some(50), Some(3), Some(180))
ObsStorm == MkObs(Lat, Lon, Some(10), Some(60), Some(5), Some(4), Some(50), Some(3), Some(180))

\* The running display's observations, and those of the lightning scenario.
ObsDisplay == {ObsDry, ObsNoCoords, ObsRain}
ObsLightning == {ObsDry, ObsStorm}

\* Today's ephemeris quantities: an ordinary day (sunrise 6:00, sunset 18:00)
\* and a polar day on which neither calc() finds a crossing.
SunOrdinary == [riseCosH |-> 0, riseT |-> 600, setCosH |-> 0, setT |-> 1800]
SunPolar == [riseCosH |-> 120, riseT |-> 600, setCosH |-> 120, setT |-> 1800]
SunDisplay == {SunOrdinary, SunPolar}

\* The hours at which the running display is observed, in the order the clock
\* passes them.
ClockSamples == <<0, 600, 1200, 1700, 1800>>
ClockSet == {ClockSamples[i] : i \in 1..Len(ClockSamples)}
NextSample(h) ==
    LET i == CHOOSE j \in 1..Len(ClockSamples) : ClockSamples[j] = h
    IN ClockSamples[(i % Len(ClockSamples)) + 1]

\* The time override a preview tool may inject.
Overrides == {Null, Some(1200)}

\* The hours of the lightning scenario: a night (stars, shooting stars) and a day.
ClockLightning == {0, 1200}

\* The alert responses of the running display: the poll fails, or one severe
\* alert is active.
OneSevere == <<Feature("Actual", "Severe")>>
AlertsBasic == {AlertThrow, AlertOk(OneSevere)}

ProbeInit == [done |-> FALSE, precip |-> "", sky |-> ""]

\* ------------------------------------------------ the component's actions

Hour == HourNow(props.timeOverride, clock)

\* How many alert polls rendering w adds.
Polls(w, n) == IF WantsAlerts(w) THEN n ELSE 0

\* Whether n more renders of w keep the model inside its bounds.
CanRender(w, n) ==
    /\ wx.alertsInFlight + Polls(w, n) <= MaxAlertsInFlight
    /\ Len(wx.treeQ) < MaxTreeQ

\* onMount, then the first run of the $effect: with data present the
\* observation is rendered twice in a row.
Mount ==
    /\ ~wx.mounted
    /\ \/ IsNull(props.data)
       \/ ~IsNull(props.data) /\ CanRender(Val(props.data), 2)
    /\ LET s1 == TickClockFn([wx EXCEPT !.mounted = TRUE], Hour, sunCalc)
           s2 == IF IsNull(props.data) THEN s1
                 ELSE Render(Render(s1, Val(props.data), Hour, sunCalc),
                             Val(props.data), Hour, sunCalc)
       IN wx' = s2
    /\ UNCHANGED <<props, clock, sunCalc, probe, page, server>>

\* The parent hands a new observation object: the $effect renders it.
DataChanged(w) ==
    /\ wx.mounted => CanRender(w, 1)
    /\ props' = [props EXCEPT !.data = Some(w)]
    /\ wx' = IF wx.mounted THEN Render(wx, w, Hour, sunCalc) ELSE wx
    /\ UNCHANGED <<clock, sunCalc, probe, page, server>>

\* The preview tool changes the override: the $effect, which read it while
\* rendering, runs again.
SetTimeOverride(t) ==
    /\ t # props.timeOverride
    /\ (wx.mounted /\ ~IsNull(props.data)) => CanRender(Val(props.data), 1)
    /\ props' = [props EXCEPT !.timeOverride = t]
    /\ wx' = IF wx.mounted /\ ~IsNull(props.data)
             THEN Render(wx, Val(props.data), HourNow(t, clock), sunCalc)
             ELSE wx
    /\ UNCHANGED <<clock, sunCalc, probe, page, server>>

\* Time passes to the next sampled hour.
AdvanceClock ==
    /\ clock' = NextSample(clock)
    /\ UNCHANGED <<wx, props, sunCalc, probe, page, server>>

\* The 1-second interval fires.
TickClock ==
    /\ wx.mounted
    /\ wx' = TickClockFn(wx, Hour, sunCalc)
    /\ UNCHANGED <<props, clock, sunCalc, probe, page, server>>

\* The window is resized.
Resize ==
    /\ wx.mounted
    /\ wx' = OnResizeFn(wx)
    /\ UNCHANGED <<props, clock, sunCalc, probe, page, server>>

\* An animation frame fires: step() runs.
FireFrame ==
    /\ \E f \in wx.frames :
         wx' = Step([wx EXCEPT !.frames = @ \ {f}], f.type)
    /\ UNCHANGED <<props, clock, sunCalc, probe, page, server>>

Pending(kind) == {t \in wx.timers : t.kind = kind}

\* A strike timer fires (at least 800 ms after it was armed, so after every
\* flash timer and every treeline rebuild pending when it was armed).
FireStrike ==
    /\ Pending("flashOff") = {} /\ Pending("flash2") = {} /\ wx.treeQ = << >>
    /\ \E t \in Pending("strike"), hasSecond \in BOOLEAN :
         wx' = Strike([wx EXCEPT !.timers = @ \ {t}], hasSecond)
    /\ UNCHANGED <<props, clock, sunCalc, probe, page, server>>

\* The timer ending a flash fires (72 ms or 45 ms after the flash began).
FireFlashOff ==
    /\ \E t \in Pending("flashOff") :
         wx' = FlashOff([wx EXCEPT !.timers = @ \ {t}], t.last)
    /\ UNCHANGED <<props, clock, sunCalc, probe, page, server>>

\* The 130 ms timer of the second flash fires, after the first flash ended.
FireFlash2 ==
    /\ Pending("flashOff") = {}
    /\ \E t \in Pending("flash2") :
         wx' = DoFlash([wx EXCEPT !.timers = @ \ {t}], FALSE, TRUE)
    /\ UNCHANGED <<props, clock, sunCalc, probe, page, server>>

\* The shooting-star scheduler fires (at least 4 s after it was armed).
FireShoot ==
    /\ Pending("shootRemove") = {} /\ Pending("flashOff") = {}
    /\ Pending("flash2") = {} /\ wx.treeQ = << >>
    /\ \E t \in Pending("shoot") :
         wx' = ShootStar([wx EXCEPT !.timers = @ \ {t}])
    /\ UNCHANGED <<props, clock, sunCalc, probe, page, server>>

\* The 1.4 s removal of a shooting star fires: s.remove(), which does nothing
\* for a star clearParticles has already removed.
FireShootRemove ==
    /\ \E t \in Pending("shootRemove") :
         wx' = [wx EXCEPT !.timers = @ \ {t},
                          !.shootStars = IF t.stale \/ @ = 0 THEN @ ELSE @ - 1]
    /\ UNCHANGED <<props, clock, sunCalc, probe, page, server>>

\* The oldest 370 ms treeline rebuild fires.
FireTreeRebuild ==
    /\ wx.treeQ # << >>
    /\ wx' = [wx EXCEPT !.treeQ = Tail(@), !.treeFill = Head(wx.treeQ),
                        !.treeFilter = TreeBrightness(wx.isPrecip)]
    /\ UNCHANGED <<props, clock, sunCalc, probe, page, server>>

\* An alert poll settles.
AlertSettlesFrom(responses) ==
    /\ wx.alertsInFlight > 0
    /\ \E resp \in responses : wx' = AlertResponse(wx, resp)
    /\ UNCHANGED <<props, clock, sunCalc, probe, page, server>>

AlertSettles == AlertSettlesFrom(AlertsBasic)

\* -------------------------------------------------------- arc configuration

\* A JSON / JavaScript value of an arc field: a finite number (v, with arcExp
\* in hundredths), a number that is not finite, a string, or null.
Num(n) == [type |-> "number", finite |-> TRUE, v |-> n]
Infinite == [type |-> "number", finite |-> FALSE, v |-> 0]
Text == [type |-> "string", finite |-> FALSE, v |-> 0]
JsonNull == [type |-> "null", finite |-> FALSE, v |-> 0]

\* typeof x === 'number' && isFinite(x)
IsFiniteNumber(x) == x.type = "number" /\ x.finite

\* The keys POST /api/arc lets through.
ArcAllowed == {"xRight", "xLeft", "yHorizon", "yPeak", "arcExp"}

ARC_DEFAULTS ==
    [k \in ArcAllowed |->
       CASE k = "xRight" -> Num(92) [] k = "xLeft" -> Num(8)
         [] k = "yHorizon" -> Num(115) [] k = "yPeak" -> Num(32)
         [] k = "arcExp" -> Num(65)]

\* The object {}.
EmptyArc == [k \in {} |-> JsonNull]

\* { ...ARC_DEFAULTS, ...saved }
MergeArc(saved) ==
    [k \in ArcAllowed \cup DOMAIN saved |->
       IF k \in DOMAIN saved THEN saved[k] ELSE ARC_DEFAULTS[k]]

\* JSON.stringify then JSON.parse of an object: a number that is not finite
\* is written as null.
JsonRoundTrip(obj) ==
    [k \in DOMAIN obj |-> IF obj[k].type = "number" /\ ~obj[k].finite THEN JsonNull ELSE obj[k]]

\* The loop of POST /api/arc over the allowed keys.
FilterArc(body) ==
    [k \in {a \in ArcAllowed : a \in DOMAIN body /\ IsFiniteNumber(body[a])} |-> body[k]]

\* POST /api/arc with a parsed body: saveConfig({ arc }) replaces cfg.arc.
ArcPost(sv, body) == [sv EXCEPT !.arc = Some(FilterArc(body)), !.arcPosted = TRUE]

\* The arc member of the bodies of GET /api/arc and GET /api/config:
\* json(cfg.arc ?? {}).
ArcGet(sv) == IF IsNull(sv.arc) THEN EmptyArc ELSE JsonRoundTrip(Val(sv.arc))

\* onArcMove(e) with the pointer at p (svg units, rounded after clamping).
Clamp(lo, hi, x) == Max2(lo, Min2(hi, x))
OnArcMove(cfg, dragging, p) ==
    IF dragging = "rise"
    THEN [cfg EXCEPT !["xRight"] = Num(Clamp(55, 100, p.x)),
                     !["yHorizon"] = Num(Clamp(80, 145, p.y))]
    ELSE IF dragging = "set"
    THEN [cfg EXCEPT !["xLeft"] = Num(Clamp(0, 45, p.x)),
                     !["yHorizon"] = Num(Clamp(80, 145, p.y))]
    ELSE IF dragging = "peak"
    THEN [cfg EXCEPT !["yPeak"] = Num(Clamp(5, 90, p.y))]
    ELSE cfg

\* The steps of the arc drawn by the authoring page: t = i / 40, i in 0..40.
ArcSteps == 40

\* Math.pow(Math.sin(Math.PI * t), arcExp) at t = i / ArcSteps, in millionths
\* (rounded), as double arithmetic gives it: Math.sin(Math.PI) is 1.22e-16,
\* not 0, and Math.pow(x, 0) is 1 for every x, 0 included.  arcExp is in
\* hundredths.
PowSin(i, arcExp) ==
    IF arcExp = 0 THEN 1000000 ELSE
    CASE arcExp = 20 ->
        <<
           0, 601075, 690028, 747545, 790672, 825217, 853905,
           878248, 899174, 917295, 933033, 946693, 958499, 968619,
           977184, 984290, 990014, 994412, 997525, 999383, 1000000,
           999383, 997525, 994412, 990014, 984290, 977184, 968619,
           958499, 946693, 933033, 917295, 899174, 878248, 853905,
           825217, 790672, 747545, 690028, 601075, 657
        >>[i + 1]
    [] arcExp = 65 ->
        <<
           0, 191213, 299444, 388437, 466110, 535606, 598522,
           655776, 707933, 755360, 798298, 836912, 871310, 901566,
           927732, 949839, 967908, 981953, 991980, 997995, 1000000,
           997995, 991980, 981953, 967908, 949839, 927732, 901566,
           871310, 836912, 798298, 755360, 707933, 655776, 598522,
           535606, 466110, 388437, 299444, 191213, 0
        >>[i + 1]
    [] arcExp = 100 ->
        <<
           0, 78459, 156434, 233445, 309017, 382683, 453990,
           522499, 587785, 649448, 707107, 760406, 809017, 852640,
           891007, 923880, 951057, 972370, 987688, 996917, 1000000,
           996917, 987688, 972370, 951057, 923880, 891007, 852640,
           809017, 760406, 707107, 649448, 587785, 522499, 453990,
           382683, 309017, 233445, 156434, 78459, 0
        >>[i + 1]
    [] arcExp = 200 ->
        <<
           0, 6156, 24472, 54497, 95492, 146447, 206107,
           273005, 345492, 421783, 500000, 578217, 654508, 726995,
           793893, 853553, 904508, 945503, 975528, 993844, 1000000,
           993844, 975528, 945503, 904508, 853553, 793893, 726995,
           654508, 578217, 500000, 421783, 345492, 273005, 206107,
           146447, 95492, 54497, 24472, 6156, 0
        >>[i + 1]

\* celestialScreenPos(t) as it would be with the arc running left to right.
CelestialScreenPosMirrored(cfg, i) ==
    [x |-> ArcSteps * cfg["xLeft"].v + (cfg["xRight"].v - cfg["xLeft"].v) * i,
     y |-> 1000000 * cfg["yHorizon"].v
           - (cfg["yHorizon"].v - cfg["yPeak"].v) * PowSin(i, cfg["arcExp"].v)]

\* celestialScreenPos(t) at t = i / ArcSteps under arc config cfg, and the
\* same expression in arcPoints: x in 1/ArcSteps vw, y in millionths of a vh.
CelestialScreenPos(cfg, i) ==
    [x |-> ArcSteps * cfg["xRight"].v - (cfg["xRight"].v - cfg["xLeft"].v) * i,
     y |-> 1000000 * cfg["yHorizon"].v
           - (cfg["yHorizon"].v - cfg["yPeak"].v) * PowSin(i, cfg["arcExp"].v)]

\* ------------------------------------------------------ weather fetch path

\* What the upstream weather API does with one request: it throws, answers
\* with a non-OK status, answers with no observations, or answers with one.
UpThrow == [kind |-> "throw", obs |-> EmptyObs]
UpNotOk == [kind |-> "notOk", obs |-> EmptyObs]
UpEmpty == [kind |-> "empty", obs |-> EmptyObs]
UpObs(o) == [kind |-> "obs", obs |-> o]

ObsUpstream == {ObsDry, ObsRain}
Upstream == {UpThrow, UpNotOk, UpEmpty} \cup {UpObs(o) : o \in ObsUpstream}

\* The server module after load: no cache; the cache, once filled, is fresh
\* until WEATHER_CACHE_DURATION_MS have passed.
\* cfg.arc is what config.json holds (absent: Null); arcPosted is history:
\* whether a POST /api/arc has written it.
ServerInit(configured) ==
    [configured |-> configured, weatherCache |-> Null, fresh |-> FALSE,
     arc |-> Null, arcPosted |-> FALSE]

\* fetchWeather(apiKey, stationId) when the upstream behaves as `up`:
\* the server afterwards and the {data, error} it returns (error as a flag).
FetchWeather(sv, up) ==
    IF ~IsNull(sv.weatherCache) /\ sv.fresh
    THEN [server |-> sv, data |-> sv.weatherCache, error |-> FALSE]
    ELSE IF up.kind = "obs"
    THEN [server |-> [sv EXCEPT !.weatherCache = Some(up.obs), !.fresh = TRUE],
          data |-> Some(up.obs), error |-> FALSE]
    ELSE [server |-> sv, data |-> Null, error |-> TRUE]

\* A response as a page sees it.  `json` is the body read as a WeatherData: an
\* error body {error: ...} has none of its fields.
Response(status, json) == [kind |-> "response", status |-> status, json |-> json]
\* The page's fetch() itself throws (the server cannot be reached).
NetworkError == [kind |-> "throw", status |-> 0, json |-> EmptyObs]

\* GET /api/weather: the server afterwards and the response.
ApiWeatherGet(sv, up) ==
    IF ~sv.configured THEN [server |-> sv, resp |-> Response(404, EmptyObs)]
    ELSE LET r == FetchWeather(sv, up) IN
         IF r.error \/ IsNull(r.data)
         THEN [server |-> r.server, resp |-> Response(502, EmptyObs)]
         ELSE [server |-> r.server, resp |-> Response(200, Val(r.data))]

RespOk(resp) == resp.kind = "response" /\ resp.status >= 200 /\ resp.status <= 299

\* The slideshow page's loadWeather(), given the response of its fetch.
LoadWeather(resp) ==
    IF resp.kind = "throw" THEN Null
    ELSE IF ~RespOk(resp) THEN Null
    ELSE Some(resp.json)

\* The standalone weather page's load(): what it assigns to weatherData.
StandaloneLoad(resp) ==
    IF resp.kind = "throw" THEN Some(EmptyObs) ELSE Some(resp.json)

\* A page: which page is open ("slide" the slideshow, "alone" the standalone
\* weather page, "tester" the authoring page, "none"), the observation it hands to the display, its
\* requests in flight (each with the response it will get), and lastGood, the
\* observation of the last load that completed successfully.
\* arcConfig is the page's arc state, handed to the display as its arcConfig
\* prop; arcLoaded whether the page's load of the saved arc has run; dragging
\* the handle the authoring page is dragging ("" for null).
PageInit(kind) ==
    [kind |-> kind, phase |-> "start", enabled |-> FALSE, weatherData |-> Null,
     hasWeatherSlide |-> FALSE, inflight |-> << >>, lastGood |-> Null,
     arcConfig |-> ARC_DEFAULTS, arcLoaded |-> FALSE, dragging |-> ""]

Request(from, resp) == [from |-> from, resp |-> resp]

RemoveAt(q, i) == SubSeq(q, 1, i - 1) \o SubSeq(q, i + 1, Len(q))

\* The observation of a successful load, or what was there before.
NoteGood(old, resp) == IF RespOk(resp) THEN Some(resp.json) ELSE old


\* The page's fetch('/api/weather'): either the server handles it, with the
\* upstream behaving in one of its ways, or the request never arrives.
Fetch(from) ==
    /\ Len(page.inflight) < MaxLoadsInFlight
    /\ \/ \E up \in Upstream :
            LET r == ApiWeatherGet(server, up) IN
            /\ server' = r.server
            /\ page' = [page EXCEPT !.inflight = Append(@, Request(from, r.resp))]
       \/ /\ server' = server
          /\ page' = [page EXCEPT !.inflight = Append(@, Request(from, NetworkError))]

\* Slideshow init(): loadConfig().
SlideLoadConfig ==
    /\ page.kind = "slide" /\ page.phase = "start"
    /\ \E en \in BOOLEAN, loaded \in BOOLEAN :
         /\ en => loaded
         /\ page' = [page EXCEPT !.phase = "config", !.enabled = en,
                                  !.arcLoaded = TRUE,
                                  !.arcConfig = IF loaded THEN MergeArc(ArcGet(server))
                                                ELSE @]
    /\ UNCHANGED <<wx, props, clock, sunCalc, probe, server>>

\* Slideshow init(): `weatherData = await loadWeather()`, up to the await.
SlideInitLoad ==
    /\ page.kind = "slide" /\ page.phase = "config"
    /\ IF ~page.enabled
       THEN /\ page' = [page EXCEPT !.phase = "running", !.weatherData = Null,
                                    !.hasWeatherSlide = FALSE]
            /\ server' = server
       ELSE \E up \in Upstream \cup {NetworkError} :
            LET r == IF up = NetworkError
                     THEN [server |-> server, resp |-> NetworkError]
                     ELSE ApiWeatherGet(server, up) IN
            /\ server' = r.server
            /\ page' = [page EXCEPT !.phase = "initWait",
                                    !.inflight = <<Request("init", r.resp)>>]
    /\ UNCHANGED <<wx, props, clock, sunCalc, probe>>

\* Slideshow init(): the await returns; buildSlides; the intervals are armed.
SlideInitDone ==
    /\ page.kind = "slide" /\ page.phase = "initWait"
    /\ LET resp == page.inflight[1].resp
           d == LoadWeather(resp) IN
       page' = [page EXCEPT !.phase = "running", !.weatherData = d,
                            !.hasWeatherSlide = ~IsNull(d), !.inflight = << >>,
                            !.lastGood = NoteGood(@, resp)]
    /\ UNCHANGED <<wx, props, clock, sunCalc, probe, server>>

\* The ticker advances to the weather slide and calls loadWeather().
SlideTickerLoad ==
    /\ page.kind = "slide" /\ page.phase = "running"
    /\ page.hasWeatherSlide /\ page.enabled
    /\ Fetch("ticker")
    /\ UNCHANGED <<wx, props, clock, sunCalc, probe>>

\* The ten-minute weatherRefresh interval calls loadWeather().
SlideRefreshLoad ==
    /\ page.kind = "slide" /\ page.phase = "running"
    /\ page.enabled
    /\ Fetch("refresh")
    /\ UNCHANGED <<wx, props, clock, sunCalc, probe>>

\* A loadWeather() of the ticker or the refresh interval returns:
\* `if (d) weatherData = d`.
SlideLoadDone ==
    /\ page.kind = "slide" /\ page.phase = "running"
    /\ \E i \in 1..Len(page.inflight) :
        LET resp == page.inflight[i].resp
            d == LoadWeather(resp) IN
        page' = [page EXCEPT !.weatherData = IF ~IsNull(d) THEN d ELSE @,
                             !.inflight = RemoveAt(@, i),
                             !.lastGood = NoteGood(@, resp)]
    /\ UNCHANGED <<wx, props, clock, sunCalc, probe, server>>

\* Standalone page onMount: load() up to its await.
StandaloneMount ==
    /\ page.kind = "alone" /\ page.phase = "start"
    /\ \E up \in Upstream \cup {NetworkError} :
        LET r == IF up = NetworkError
                 THEN [server |-> server, resp |-> NetworkError]
                 ELSE ApiWeatherGet(server, up) IN
        /\ server' = r.server
        /\ page' = [page EXCEPT !.phase = "running",
                                !.inflight = <<Request("mount", r.resp)>>]
    /\ UNCHANGED <<wx, props, clock, sunCalc, probe>>

\* Standalone page: the ten-minute interval calls load().
StandaloneRefresh ==
    /\ page.kind = "alone" /\ page.phase = "running"
    /\ Fetch("refresh")
    /\ UNCHANGED <<wx, props, clock, sunCalc, probe>>

\* Standalone page: a load() returns from its await and assigns weatherData.
StandaloneLoadDone ==
    /\ page.kind = "alone" /\ page.phase = "running"
    /\ \E i \in 1..Len(page.inflight) :
        LET resp == page.inflight[i].resp IN
        page' = [page EXCEPT !.weatherData = StandaloneLoad(resp),
                             !.inflight = RemoveAt(@, i),
                             !.lastGood = NoteGood(@, resp)]
    /\ UNCHANGED <<wx, props, clock, sunCalc, probe, server>>

\* WEATHER_CACHE_DURATION_MS pass since the server cached an observation.
CacheExpires ==
    /\ server.fresh
    /\ server' = [server EXCEPT !.fresh = FALSE]
    /\ UNCHANGED <<wx, props, clock, sunCalc, probe, page>>

InitFetch ==
    /\ wx = WxInit
    /\ props = [data |-> Null, timeOverride |-> Null]
    /\ clock = 1200
    /\ sunCalc = SunOrdinary
    /\ probe = ProbeInit
    /\ page \in {PageInit("slide"), PageInit("alone")}
    /\ server \in {ServerInit(TRUE), ServerInit(FALSE)}

NextFetch ==
    \/ SlideLoadConfig \/ SlideInitLoad \/ SlideInitDone
    \/ SlideTickerLoad \/ SlideRefreshLoad \/ SlideLoadDone
    \/ StandaloneMount \/ StandaloneRefresh \/ StandaloneLoadDone
    \/ CacheExpires

SpecFetch == InitFetch /\ [][NextFetch]_vars


\* ------------------------------------------------------ the running display

\* No page and no server take part in the display's own scenarios.
NoPage == PageInit("none")
NoServer == ServerInit(FALSE)

Init ==
    /\ wx = WxInit
    /\ props \in [data : {Null} \cup {Some(w) : w \in ObsDisplay}, timeOverride : {Null}]
    /\ clock \in ClockSet
    /\ sunCalc \in SunDisplay
    /\ probe = ProbeInit
    /\ page = NoPage
    /\ server = NoServer

Next ==
    \/ Mount
    \/ \E w \in ObsDisplay : DataChanged(w)
    \/ AdvanceClock
    \/ TickClock
    \/ Resize
    \/ FireFrame
    \/ FireShoot
    \/ FireShootRemove
    \/ FireTreeRebuild
    \/ AlertSettles

Spec == Init /\ [][Next]_vars

\* The lightning scenario: a storm comes and goes over a display whose clock
\* stands at one hour, while a preview tool may set and clear the override.
InitLightning ==
    /\ wx = WxInit
    /\ props \in [data : {Null} \cup {Some(w) : w \in ObsLightning}, timeOverride : {Null}]
    /\ clock \in ClockLightning
    /\ sunCalc = SunOrdinary
    /\ probe = ProbeInit
    /\ page = NoPage
    /\ server = NoServer

NextLightning ==
    \/ Mount
    \/ \E w \in ObsLightning : DataChanged(w)
    \/ \E t \in Overrides : SetTimeOverride(t)
    \/ TickClock
    \/ FireTreeRebuild
    \/ FireFrame
    \/ FireStrike
    \/ FireFlashOff
    \/ FireFlash2
    \/ FireShoot
    \/ FireShootRemove
    \/ AlertSettles

SpecLightning == InitLightning /\ [][NextLightning]_vars


\* ------------------------------------------- classification and positioning

\* Observations that differ in what the classifiers read: coordinates present
\* or not, the rate around 0 and 0.08 in/hr, the temperature around 33 F, the
\* gust around 20 mph.
ObsVariety ==
    {MkObs(la, lo, r, t, g, Some(4), Some(50), Some(3), Some(180)) :
        la \in {Null, Lat}, lo \in {Null, Lon},
        r \in {Null, Some(0), Some(1), Some(8), Some(9)},
        t \in {Null, Some(33), Some(34)},
        g \in {Null, Some(20), Some(21)}}

\* Ephemerides: no sunrise, no sunset, neither, and times that calc() wraps
\* into [0, 24) from below and from above.
SunNoRise == [riseCosH |-> -120, riseT |-> 600, setCosH |-> 0, setT |-> 1800]
SunNoSet == [riseCosH |-> 0, riseT |-> 600, setCosH |-> 120, setT |-> 1800]
SunWrapped == [riseCosH |-> 100, riseT |-> -1800, setCosH |-> -100, setT |-> 4200]
SunVariety == {SunOrdinary, SunPolar, SunNoRise, SunNoSet, SunWrapped}

\* Hours around the fixed thresholds.
HoursCoarse == {0, 499, 500, 699, 700, 1200, 1699, 1700, 1899, 1900, 2099, 2100, 2399}

\* Every sunrise/sunset pair on a grid of [0, 24), in either order.
SunGrid == {k * SunStep : k \in 0..((DayLen - 1) \div SunStep)}
SunPairs == [riseCosH : {0}, riseT : SunGrid, setCosH : {0}, setT : SunGrid]

\* The hours on a grid of [0, 24), and the hours at and just below each edge
\* of a sun-relative window.
HourGrid == {k * HourStep : k \in 0..((DayLen - 1) \div HourStep)}
EdgeHours(sunrise, sunset) ==
    {e - d : e \in {sunrise - 33, sunrise + 83, sunset - 150, sunset - 50, sunset + 50},
             d \in {0, 1}} \cap (0..(DayLen - 1))

\* The classifiers are applied to the observation at the hour.
Classify ==
    /\ ~probe.done
    /\ ~IsNull(props.data)
    /\ probe' = [done |-> TRUE,
                 precip |-> InferTheme(Val(props.data), Hour, sunCalc),
                 sky |-> InferSkyTheme(Val(props.data), Hour, sunCalc)]
    /\ UNCHANGED <<wx, props, clock, sunCalc, page, server>>

InitSky ==
    /\ wx = WxInit
    /\ probe = ProbeInit
    /\ page = NoPage
    /\ server = NoServer
    /\ \/ /\ props \in [data : {Some(w) : w \in ObsVariety}, timeOverride : {Null}]
          /\ sunCalc \in SunVariety
          /\ clock \in HoursCoarse
       \/ /\ props = [data |-> Some(ObsDry), timeOverride |-> Null]
          /\ sunCalc \in SunPairs
          /\ clock \in HourGrid \cup EdgeHours(sunCalc.riseT, sunCalc.setT)

NextSky ==
    \/ Classify
    \/ Mount

SpecSky == InitSky /\ [][NextSky]_vars


\* ---------------------------------------------------------- readout scenario

\* Observations that differ in which readout fields they carry (no
\* coordinates, no precipitation: the theme plays no part).
ObsReadout ==
    {MkObs(Null, Null, Some(0), t, g, wi, hu, u, wd) :
        t \in {Null, Some(60)}, g \in {Null, Some(5)}, wi \in {Null, Some(4)},
        hu \in {Null, Some(50), Some(95)}, u \in {Null, Some(3)},
        wd \in {Null, Some(180), Some(270)}}

InitReadout ==
    /\ wx = WxInit
    /\ props \in [data : {Null} \cup {Some(w) : w \in ObsReadout}, timeOverride : {Null}]
    /\ clock = 1200
    /\ sunCalc = SunOrdinary
    /\ probe = ProbeInit
    /\ page = NoPage
    /\ server = NoServer

NextReadout ==
    \/ Mount
    \/ \E w \in ObsReadout : DataChanged(w)

SpecReadout == InitReadout /\ [][NextReadout]_vars


\* ------------------------------------------- arc authoring and persistence

\* The pointer positions tried (svg units of the 100 x 130 view box).
PointerPositions == {[x |-> 50, y |-> 100], [x |-> 100, y |-> 130]}

\* Arc objects that arrive from outside: every object over the keys xLeft,
\* xRight and one key that is not an arc field, with values of every kind.
ArcValues == {Num(50), Num(95), Text, Infinite}
ArcObjects == UNION {[K -> ArcValues] : K \in SUBSET {"xLeft", "xRight", "colour"}}
ArcBodies == ArcObjects

\* What config.json holds for arc when the server starts: nothing, or an
\* object written by hand.
ArcFiles == {Null, Some([k \in {"xLeft"} |-> Text]), Some([k \in {"arcExp"} |-> Infinite])}

\* The standalone page's loadArc() and the authoring page's onMount fetch of
\* /api/arc: the saved arc is merged over the defaults; a failed fetch leaves
\* the page's arc alone.
LoadArc ==
    /\ page.kind \in {"alone", "tester"} /\ ~page.arcLoaded
    /\ \E ok \in BOOLEAN :
         page' = [page EXCEPT !.arcLoaded = TRUE,
                              !.arcConfig = IF ok THEN MergeArc(ArcGet(server)) ELSE @]
    /\ UNCHANGED <<wx, props, clock, sunCalc, probe, server>>

\* pointerdown on one of the three handles of the authoring page.
ArcGrab ==
    /\ page.kind = "tester"
    /\ \E d \in {"rise", "set", "peak"} : page' = [page EXCEPT !.dragging = d]
    /\ UNCHANGED <<wx, props, clock, sunCalc, probe, server>>

\* pointermove over the arc svg.
ArcMove ==
    /\ page.kind = "tester" /\ page.dragging # ""
    /\ \E p \in PointerPositions :
         page' = [page EXCEPT !.arcConfig = OnArcMove(@, page.dragging, p)]
    /\ UNCHANGED <<wx, props, clock, sunCalc, probe, server>>

\* pointerup / pointerleave.
ArcRelease ==
    /\ page.kind = "tester" /\ page.dragging # ""
    /\ page' = [page EXCEPT !.dragging = ""]
    /\ UNCHANGED <<wx, props, clock, sunCalc, probe, server>>

\* The "Reset defaults" button.
ArcReset ==
    /\ page.kind = "tester"
    /\ page' = [page EXCEPT !.arcConfig = ARC_DEFAULTS]
    /\ UNCHANGED <<wx, props, clock, sunCalc, probe, server>>

\* saveArc(): the authoring page posts JSON.stringify(arcConfig).
SaveArc ==
    /\ page.kind = "tester"
    /\ server' = ArcPost(server, JsonRoundTrip(page.arcConfig))
    /\ UNCHANGED <<wx, props, clock, sunCalc, probe, page>>

\* Any client posts a JSON object to /api/arc.
ArcPostAny ==
    /\ \E body \in ArcBodies : server' = ArcPost(server, body)
    /\ UNCHANGED <<wx, props, clock, sunCalc, probe, page>>

InitArc ==
    /\ wx = WxInit
    /\ props = [data |-> Null, timeOverride |-> Null]
    /\ clock = 1200
    /\ sunCalc = SunOrdinary
    /\ probe = ProbeInit
    /\ page \in {PageInit("slide"), PageInit("alone"), PageInit("tester")}
    /\ server \in {[ServerInit(TRUE) EXCEPT !.arc = f] : f \in ArcFiles}

NextArc ==
    \/ SlideLoadConfig \/ LoadArc
    \/ ArcGrab \/ ArcMove \/ ArcRelease \/ ArcReset
    \/ SaveArc \/ ArcPostAny

SpecArc == InitArc /\ [][NextArc]_vars


\* ---------------------------------------------------------------- sun times

\* The quantities of a day at a place as getSunTimes forms them: T of the
\* sunrise and of the sunset (H + RA - 0.06571 t - 6.622, the local mean
\* time of the event), lngHour = lon / 15 and the browser's
\* localOffsetHours, all in hundredths of an hour; cosH in hundredths, the
\* same sign for both events.
SunAt(cosH, riseT, setT, lngHour, localOffsetHours) ==
    [riseCosH |-> cosH, riseT |-> riseT - lngHour + localOffsetHours,
     setCosH |-> cosH, setT |-> setT - lngHour + localOffsetHours]

\* Days: sunrise at 1:26, 4:30 or 6:00 and sunset at 18:00, 21:00 or 22:35
\* local mean time, and a polar day; places at longitudes -92.25, -21.9
\* (Reykjavik), 0 and 135; browsers at UTC-6, UTC-5, UTC and UTC+9.
SunDays ==
    {SunAt(cosH, tr, ts, lng, off) :
        cosH \in {0, 120}, tr \in {144, 450, 600}, ts \in {1800, 2100, 2259},
        lng \in {-615, -146, 0, 900}, off \in {-600, -500, 0, 900}}

InitSun ==
    /\ wx = WxInit
    /\ props = [data |-> Null, timeOverride |-> Null]
    /\ clock = 1200
    /\ sunCalc \in SunDays
    /\ probe = [done |-> FALSE, times |-> [sunrise |-> Null, sunset |-> Null]]
    /\ page = NoPage
    /\ server = NoServer

\* getSunTimes(lat, lon) is called.
ComputeSunTimes ==
    /\ probe' = [done |-> TRUE, times |-> GetSunTimes(sunCalc)]
    /\ UNCHANGED <<wx, props, clock, sunCalc, page, server>>

NextSun == ComputeSunTimes

SpecSun == InitSun /\ [][NextSun]_vars


\* ------------------------------------------------------------ arc position

\* Arc configs of finite numbers: the ends of the drag ranges and the
\* defaults, with exponents 0, 0.2, 0.65, 1 and 2.
ArcSamples ==
    {[k \in ArcAllowed |->
        CASE k = "xRight" -> Num(xr) [] k = "xLeft" -> Num(xl)
          [] k = "yHorizon" -> Num(yh) [] k = "yPeak" -> Num(yp)
          [] k = "arcExp" -> Num(ex)] :
        xr \in {55, 92}, xl \in {8, 45}, yh \in {80, 115}, yp \in {32, 90},
        ex \in {0, 20, 65, 100, 200}}

InitArcPos ==
    /\ wx = WxInit
    /\ props = [data |-> Null, timeOverride |-> Null]
    /\ clock = 1200
    /\ sunCalc = SunOrdinary
    /\ probe = [done |-> FALSE, t |-> 0, pos |-> [x |-> 0, y |-> 0]]
    /\ page \in {[PageInit("tester") EXCEPT !.arcConfig = c] : c \in ArcSamples}
    /\ server = NoServer

\* The position on the arc at step i is computed from the page's arc config.
ArcPoint ==
    /\ page.kind = "tester"
    /\ \E i \in 0..ArcSteps :
         probe' = [done |-> TRUE, t |-> i, pos |-> CelestialScreenPos(page.arcConfig, i)]
    /\ UNCHANGED <<wx, props, clock, sunCalc, page, server>>

NextArcPos == ArcPoint

SpecArcPos == InitArcPos /\ [][NextArcPos]_vars


\* ------------------------------------------------------------ wind streaks

\* Observations without coordinates at every wind speed up to MaxWind: dry,
\* rain, a storm by rate and snow (rain at 20 F).
ObsWind ==
    {MkObs(Null, Null, Some(k[1]), Some(k[2]), Some(5), Some(ws), Some(50), Some(3), Some(180)) :
        k \in {<<0, 60>>, <<2, 60>>, <<10, 60>>, <<2, 20>>}, ws \in 0..MaxWind}

InitWind ==
    /\ wx = WxInit
    /\ props \in [data : {Some(w) : w \in ObsWind}, timeOverride : {Null}]
    /\ clock \in {0, 1200}
    /\ sunCalc = SunOrdinary
    /\ probe = ProbeInit
    /\ page = NoPage
    /\ server = NoServer

NextWind ==
    \/ Mount
    \/ \E w \in ObsWind : DataChanged(w)

SpecWind == InitWind /\ [][NextWind]_vars


\* ------------------------------------------------------ derived parameters

\* Readings a station may send: humidity in percent, the UV index and the
\* wind speed in mph, each also missing, and each also off its scale as a
\* faulty sensor sends it.
HumidityReadings == {Null} \cup {Some(x) : x \in {0, 20, 40, 41, 43, 60, 70, 80, 99, 100, 101, 120}}
UvReadings == {Null} \cup {Some(x) : x \in {0 - 1, 0, 1, 3, 5, 7, 10, 11, 12, 15}}
WindReadings == {Null} \cup {Some(x) : x \in {0, 1, 5, 10, 17, 20, 34, 35, 36, 40, 41, 50, 60}}

ObsDerived ==
    {MkObs(Null, Null, Some(0), Some(60), Some(5), Some(4), hum, Some(3), Some(180)) :
        hum \in HumidityReadings}
    \cup {MkObs(Null, Null, Some(0), Some(60), Some(5), Some(4), Some(50), uv, Some(180)) :
        uv \in UvReadings}
    \cup {MkObs(Null, Null, Some(0), Some(60), Some(5), ws, Some(50), Some(3), Some(180)) :
        ws \in WindReadings}

InitDerived ==
    /\ wx = WxInit
    /\ props \in [data : {Null} \cup {Some(w) : w \in ObsDerived}, timeOverride : {Null}]
    /\ clock \in {0, 1200}
    /\ sunCalc = SunOrdinary
    /\ probe = ProbeInit
    /\ page = NoPage
    /\ server = NoServer

NextDerived ==
    \/ Mount
    \/ \E w \in ObsDerived : DataChanged(w)

SpecDerived == InitDerived /\ [][NextDerived]_vars


\* ------------------------------------------------- particles by theme pair

\* Observations without coordinates, one per precipitation theme: dry, rain,
\* a storm by rate and snow (rain at 20 F).
ObsParticles ==
    {MkObs(Null, Null, Some(k[1]), Some(k[2]), Some(5), Some(4), Some(50), Some(3), Some(180)) :
        k \in {<<0, 60>>, <<2, 60>>, <<10, 60>>, <<2, 20>>}}

\* Preview hours, one in each window of the fixed thresholds.
OverridesSky == {Null, Some(0), Some(600), Some(1800), Some(2000)}

InitParticles ==
    /\ wx = WxInit
    /\ props \in [data : {Null} \cup {Some(w) : w \in ObsParticles}, timeOverride : {Null}]
    /\ clock = 1200
    /\ sunCalc = SunOrdinary
    /\ probe = ProbeInit
    /\ page = NoPage
    /\ server = NoServer

NextParticles ==
    \/ Mount
    \/ \E w \in ObsParticles : DataChanged(w)
    \/ \E t \in OverridesSky : SetTimeOverride(t)
    \/ FireTreeRebuild
    \/ FireFrame
    \/ FireStrike
    \/ FireFlashOff
    \/ FireFlash2
    \/ FireShoot
    \/ FireShootRemove

SpecParticles == InitParticles /\ [][NextParticles]_vars


\* ------------------------------------------------- the treeline in bursts

\* How many 370 ms rebuilds may be pending together.
MaxTreeBurst == 3

\* History: the greatest number of rebuilds pending together since the queue
\* was last empty.
TreeProbe == [kind |-> "tree", deep |-> 0]

Deepen(pc, s, t) ==
    [pc EXCEPT !.deep = IF s.treeQ = << >> /\ t.treeQ # << >> THEN 1
                        ELSE Max2(@, Len(t.treeQ))]

InitTreeline ==
    /\ wx = WxInit
    /\ props \in [data : {Null} \cup {Some(w) : w \in ObsParticles}, timeOverride : {Null}]
    /\ clock = 1200
    /\ sunCalc = SunOrdinary
    /\ probe = TreeProbe
    /\ page = NoPage
    /\ server = NoServer

\* A new observation, as in DataChanged, however soon after the last.
TreeDataChanged ==
    /\ Len(wx.treeQ) < MaxTreeBurst
    /\ \E w \in ObsParticles :
         LET s2 == IF wx.mounted THEN Render(wx, w, Hour, sunCalc) ELSE wx IN
         /\ props' = [props EXCEPT !.data = Some(w)]
         /\ wx' = s2
         /\ probe' = Deepen(probe, wx, s2)
    /\ UNCHANGED <<clock, sunCalc, page, server>>

\* The preview hour changes, as in SetTimeOverride, however soon after the last.
TreeOverride ==
    /\ Len(wx.treeQ) < MaxTreeBurst
    /\ \E t \in OverridesSky \ {props.timeOverride} :
         LET s2 == IF wx.mounted /\ ~IsNull(props.data)
                   THEN Render(wx, Val(props.data), HourNow(t, clock), sunCalc)
                   ELSE wx
         IN
         /\ props' = [props EXCEPT !.timeOverride = t]
         /\ wx' = s2
         /\ probe' = Deepen(probe, wx, s2)
    /\ UNCHANGED <<clock, sunCalc, page, server>>

NextTreeline ==
    \/ Mount
    \/ TreeDataChanged
    \/ TreeOverride
    \/ Resize
    \/ FireTreeRebuild

SpecTreeline == InitTreeline /\ [][NextTreeline]_vars


\* ------------------------------------------------- rain and snow in motion

\* Lengths in whole pixels.  The canvas takes the window's size.
CanvasSizes == {[W |-> 20, H |-> 30], [W |-> 8, H |-> 10]}

\* One raindrop as initRain(heavy) makes it: len 14..26 px (heavy 22..42),
\* spd 11..19 px (heavy 18..32) a frame, and dx = Math.sin(ang) * spd for an
\* angle within 3 degrees of 7 (heavy 18); x and y as given.
Raindrops(heavy, x, y) ==
    IF heavy
    THEN {[x |-> x, y |-> y, len |-> 22, spd |-> 18, dx |-> 5],
          [x |-> x, y |-> y, len |-> 41, spd |-> 31, dx |-> 11]}
    ELSE {[x |-> x, y |-> y, len |-> 14, spd |-> 11, dx |-> 1],
          [x |-> x, y |-> y, len |-> 25, spd |-> 18, dx |-> 3]}

\* One snowflake as initSnow() makes it: r 1.2..5.7 px, spd 0.4..1.5 px.
Snowflakes(x, y) ==
    {[x |-> x, y |-> y, r |-> 2, spd |-> 1],
     [x |-> x, y |-> y, r |-> 5, spd |-> 1]}

\* Math.random() * n for n >= 0: the least and the greatest value sampled.
RandomBelow(n) == {0, Max2(0, n - 1)}

\* f.drift + Math.sin(snowT + f.off) * 0.5: within 0.75 px either way.
SnowDrifts == {0 - 1, 0, 1}

\* drawRain's loop body as it would be if the drop were tested before it moved.
DrawRainOneTestFirst(d, W, H, rx) ==
    IF d.y > H THEN [d EXCEPT !.y = 0 - d.len, !.x = rx - 100]
    ELSE [d EXCEPT !.y = d.y + d.spd, !.x = d.x + d.dx]

\* drawRain's loop body for one drop, rx being the Math.random() * (W + 200).
DrawRainOne(d, W, H, rx) ==
    LET y1 == d.y + d.spd
        x1 == d.x + d.dx
    IN IF y1 > H THEN [d EXCEPT !.y = 0 - d.len, !.x = rx - 100]
       ELSE [d EXCEPT !.y = y1, !.x = x1]

\* drawSnow's loop body for one flake, dx being the drift of this frame and
\* rx the Math.random() * W.
DrawSnowOne(f, W, H, dx, rx) ==
    LET y1 == f.y + f.spd
        x1 == f.x + dx
        fell == y1 > H + f.r
        y2 == IF fell THEN 0 - f.r ELSE y1
        x2 == IF fell THEN rx ELSE x1
        x3 == IF x2 > W + f.r THEN 0 - f.r ELSE x2
        x4 == IF x3 < 0 - f.r THEN W + f.r ELSE x3
    IN [f EXCEPT !.y = y2, !.x = x4]

\* The canvas and the particle followed: one drop of drops or one flake of
\* flakes (pool is empty until the init of that pool has run), and stepped:
\* whether step() has moved that pool since the canvas last changed its size.
PrecipProbe(follow, size) ==
    [kind |-> "precip", follow |-> follow, W |-> size.W, H |-> size.H,
     pool |-> << >>, stepped |-> FALSE]

\* The pool the loop of `type` draws.
PoolOf(type) ==
    IF type \in {"rain", "storm"} THEN "drops"
    ELSE IF type = "snow" THEN "flakes" ELSE ""

\* step() of the loop of `type` on the particle followed.
StepFollowed(pc, type, rx, dx) ==
    IF PoolOf(type) # pc.follow THEN pc
    ELSE IF pc.follow = "drops"
    THEN [pc EXCEPT !.pool = [i \in 1..Len(@) |-> DrawRainOne(@[i], pc.W, pc.H, rx)],
                    !.stepped = TRUE]
    ELSE [pc EXCEPT !.pool = [i \in 1..Len(@) |-> DrawSnowOne(@[i], pc.W, pc.H, dx, rx)],
                    !.stepped = TRUE]

InitPrecip ==
    /\ wx = WxInit
    /\ props \in [data : {Null} \cup {Some(w) : w \in ObsParticles}, timeOverride : {Null}]
    /\ clock = 1200
    /\ sunCalc = SunOrdinary
    /\ \E follow \in {"drops", "flakes"}, size \in CanvasSizes :
         probe = PrecipProbe(follow, size)
    /\ page = NoPage
    /\ server = NoServer

\* The particle followed after one render: initRain / initSnow replace their
\* pool, and animLoop runs step() once at once.
PrecipRendered(s2) ==
    IF PoolOf(s2.cond) # probe.follow THEN probe' = probe
    ELSE IF probe.follow = "drops"
    THEN \E x0 \in RandomBelow(probe.W + 200), y0 \in RandomBelow(probe.H),
            rx \in RandomBelow(probe.W + 200) :
           \E drop \in Raindrops(s2.cond = "storm", x0 - 100, y0) :
              probe' = StepFollowed([probe EXCEPT !.pool = <<drop>>], s2.cond, rx, 0)
    ELSE \E x0 \in RandomBelow(probe.W), y0 \in RandomBelow(probe.H),
            rx \in RandomBelow(probe.W), dx \in SnowDrifts :
           \E flake \in Snowflakes(x0, y0) :
              probe' = StepFollowed([probe EXCEPT !.pool = <<flake>>], s2.cond, rx, dx)

\* onMount and the first run of the $effect, as in Mount.
PrecipMount ==
    /\ ~wx.mounted
    /\ LET s1 == TickClockFn([wx EXCEPT !.mounted = TRUE], Hour, sunCalc)
           s2 == IF IsNull(props.data) THEN s1
                 ELSE Render(Render(s1, Val(props.data), Hour, sunCalc),
                             Val(props.data), Hour, sunCalc)
       IN /\ wx' = s2
          /\ IF IsNull(props.data) THEN probe' = probe ELSE PrecipRendered(s2)
    /\ UNCHANGED <<props, clock, sunCalc, page, server>>

\* A new observation arrives, as in DataChanged.
PrecipDataChanged ==
    /\ \E w \in ObsParticles :
         LET s2 == IF wx.mounted THEN Render(wx, w, Hour, sunCalc) ELSE wx IN
         /\ props' = [props EXCEPT !.data = Some(w)]
         /\ wx' = s2
         /\ IF wx.mounted THEN PrecipRendered(s2) ELSE probe' = probe
    /\ UNCHANGED <<clock, sunCalc, page, server>>

\* An animation frame fires: step() draws and moves the pool.
PrecipFrame ==
    /\ \E f \in wx.frames :
         /\ wx' = Step([wx EXCEPT !.frames = @ \ {f}], f.type)
         /\ IF PoolOf(f.type) # probe.follow THEN probe' = probe
            ELSE IF probe.follow = "drops"
            THEN \E rx \in RandomBelow(probe.W + 200) :
                    probe' = StepFollowed(probe, f.type, rx, 0)
            ELSE \E rx \in RandomBelow(probe.W), dx \in SnowDrifts :
                    probe' = StepFollowed(probe, f.type, rx, dx)
    /\ UNCHANGED <<props, clock, sunCalc, page, server>>

\* The window is resized: the canvas takes the new size.
PrecipResize ==
    /\ wx.mounted
    /\ wx' = OnResizeFn(wx)
    /\ \E size \in CanvasSizes \ {[W |-> probe.W, H |-> probe.H]} :
         probe' = [probe EXCEPT !.W = size.W, !.H = size.H, !.stepped = FALSE]
    /\ UNCHANGED <<props, clock, sunCalc, page, server>>

NextPrecip ==
    \/ PrecipMount
    \/ PrecipDataChanged
    \/ PrecipFrame
    \/ PrecipResize

SpecPrecip == InitPrecip /\ [][NextPrecip]_vars


\* ------------------------------------------------------ the storm in time

\* Storms reported without coordinates (no alert poll), lighter and heavier.
ObsStorms ==
    {MkObs(Null, Null, Some(k), Some(60), Some(5), Some(4), Some(50), Some(3), Some(180)) :
        k \in {10, 25}}

\* Delays in milliseconds.  800 + Math.random() * 2200 and
\* 3500 + Math.random() * 9000 with Math.random() in [0, 1): the least and the
\* greatest whole millisecond of each.
FirstStrikeDelays == {800, 2999}
NextStrikeDelays == {3500, 12499}
\* The flash's length: br ? 72 : 45.
FlashMs(br) == IF br THEN 72 ELSE 45
\* The second flash is lit 130 ms after the strike.
SecondFlashMs == 130

StormKinds == {"strike", "flashOff", "flash2"}
NoDue == 0 - 1

\* The milliseconds each pending lightning timer still has to run (NoDue:
\* not pending), and history: whether the pending strike timer was armed by
\* buildLightning, the time since it was armed, the time since the last
\* strike (no further than SinceCap), when the lit flash was lit, the flashes
\* of the last strike so far, and the last lightning callback that ran with
\* what it found (a strike) or left (the end of a flash).
SinceCap == 200
StormClock ==
    [kind |-> "storm",
     due |-> [k \in StormKinds |-> NoDue],
     first |-> FALSE, armedFor |-> 0, sinceStrike |-> NoDue, litAt |-> NoDue,
     flashes |-> 0, log |-> Null]

\* The time the next lightning timer to fire still has to run.
SoonestDue(pc) ==
    LET ds == {pc.due[k] : k \in StormKinds} \ {NoDue} IN
    IF ds = {} THEN NoDue ELSE CHOOSE d \in ds : \A e \in ds : d <= e

\* e milliseconds pass.
Elapse(pc, e) ==
    [pc EXCEPT
       !.due = [k \in StormKinds |-> IF pc.due[k] = NoDue THEN NoDue ELSE pc.due[k] - e],
       !.armedFor = @ + e,
       !.sinceStrike = IF @ = NoDue THEN NoDue ELSE Min2(SinceCap, @ + e)]

\* render(w) arms the first strike d ms ahead when w is a storm.
StormRendered(pc, s, d) ==
    IF Pending("strike") = {} /\ {t \in s.timers : t.kind = "strike"} = {}
    THEN pc
    ELSE [pc EXCEPT !.due["strike"] = IF {t \in s.timers : t.kind = "strike"} = {}
                                      THEN NoDue ELSE d,
                    !.first = TRUE, !.armedFor = 0]

InitStorm ==
    /\ wx = WxInit
    /\ props \in [data : {Null} \cup {Some(w) : w \in ObsStorms}, timeOverride : {Null}]
    /\ clock = 1200
    /\ sunCalc = SunOrdinary
    /\ probe = StormClock
    /\ page = NoPage
    /\ server = NoServer

\* onMount and the first run of the $effect, as in Mount.
StormMount ==
    /\ ~wx.mounted
    /\ \E d \in FirstStrikeDelays :
         LET s1 == TickClockFn([wx EXCEPT !.mounted = TRUE], Hour, sunCalc)
             s2 == IF IsNull(props.data) THEN s1
                   ELSE Render(Render(s1, Val(props.data), Hour, sunCalc),
                               Val(props.data), Hour, sunCalc)
         IN /\ wx' = s2
            /\ probe' = StormRendered(probe, s2, d)
    /\ UNCHANGED <<props, clock, sunCalc, page, server>>

\* A new storm observation arrives, as in DataChanged.
StormDataChanged ==
    /\ \E w \in ObsStorms, d \in FirstStrikeDelays :
         LET s2 == IF wx.mounted THEN Render(wx, w, Hour, sunCalc) ELSE wx IN
         /\ props' = [props EXCEPT !.data = Some(w)]
         /\ wx' = s2
         /\ probe' = IF wx.mounted THEN StormRendered(probe, s2, d) ELSE probe
    /\ UNCHANGED <<clock, sunCalc, page, server>>

\* Time passes short of the next timer.
StormWait ==
    /\ wx.mounted
    /\ \E e \in {50, 100, 500} :
         /\ e < SoonestDue(probe)
         /\ probe' = Elapse(probe, e)
    /\ UNCHANGED <<wx, props, clock, sunCalc, page, server>>

\* The strike timer is the next to run out: strike().
StormStrike ==
    /\ probe.due["strike"] # NoDue /\ probe.due["strike"] = SoonestDue(probe)
    /\ \E t \in Pending("strike"), hasSecond \in BOOLEAN, d \in NextStrikeDelays :
         LET pc == Elapse(probe, probe.due["strike"]) IN
         /\ wx' = Strike([wx EXCEPT !.timers = @ \ {t}], hasSecond)
         /\ probe' = [pc EXCEPT
              !.due = [k \in StormKinds |->
                         IF k = "strike" THEN d
                         ELSE IF k = "flashOff" THEN FlashMs(TRUE)
                         ELSE IF hasSecond THEN SecondFlashMs ELSE NoDue],
              !.first = FALSE, !.armedFor = 0, !.sinceStrike = 0, !.litAt = 0,
              !.flashes = 1,
              !.log = Some([ev |-> "strike", first |-> probe.first,
                            gap |-> pc.armedFor, br |-> TRUE, last |-> FALSE,
                            litAt |-> 0, litFor |-> 0,
                            second |-> hasSecond,
                            clean |-> /\ wx.flash = 0 /\ ~wx.bolts /\ wx.svgOpacity = 0
                                      /\ probe.due["flashOff"] = NoDue
                                      /\ probe.due["flash2"] = NoDue])]
    /\ UNCHANGED <<props, clock, sunCalc, page, server>>

\* The timer ending a flash is the next to run out.
StormFlashOff ==
    /\ probe.due["flashOff"] # NoDue /\ probe.due["flashOff"] = SoonestDue(probe)
    /\ \E t \in Pending("flashOff") :
         LET pc == Elapse(probe, probe.due["flashOff"])
             s2 == FlashOff([wx EXCEPT !.timers = @ \ {t}], t.last)
         IN
         /\ wx' = s2
         /\ probe' = [pc EXCEPT
              !.due["flashOff"] = NoDue, !.litAt = NoDue,
              !.log = Some([ev |-> "flashEnd", first |-> probe.first,
                            gap |-> 0, br |-> t.br, last |-> t.last,
                            litAt |-> probe.litAt,
                            litFor |-> pc.sinceStrike - probe.litAt,
                            second |-> probe.due["flash2"] # NoDue,
                            clean |-> /\ s2.flash = 0
                                      /\ t.last => ~s2.bolts /\ s2.svgOpacity = 0])]
    /\ UNCHANGED <<props, clock, sunCalc, page, server>>

\* The timer of the second flash is the next to run out: doFlash(false, true).
StormFlash2 ==
    /\ probe.due["flash2"] # NoDue /\ probe.due["flash2"] = SoonestDue(probe)
    /\ \E t \in Pending("flash2") :
         LET pc == Elapse(probe, probe.due["flash2"]) IN
         /\ wx' = DoFlash([wx EXCEPT !.timers = @ \ {t}], FALSE, TRUE)
         /\ probe' = [pc EXCEPT
              !.due["flash2"] = NoDue, !.due["flashOff"] = FlashMs(FALSE),
              !.litAt = pc.sinceStrike, !.flashes = @ + 1]
    /\ UNCHANGED <<props, clock, sunCalc, page, server>>

NextStorm ==
    \/ StormMount
    \/ StormDataChanged
    \/ StormWait
    \/ StormStrike
    \/ StormFlashOff
    \/ StormFlash2

SpecStorm == InitStorm /\ [][NextStorm]_vars

\* The browser runs a timer that has run out.
SpecStormLive ==
    SpecStorm /\ WF_vars(StormStrike) /\ WF_vars(StormFlashOff) /\ WF_vars(StormFlash2)


\* ------------------------------------------------ preview with an override

\* getSunTimes' day number N = ceil((now - jan1) / 86400000): `days` calendar
\* days after 1 January, `wall` the local time of day, `shift` the hours by
\* which the local offset at `now` exceeds the offset at 1 January.
DayNumber(days, wall, shift) == CeilDiv(days * DayLen + wall - 100 * shift, DayLen)

\* The date of the preview: 21 March, 79 calendar days after 1 January.
PreviewDay == 79

\* calc()'s quantities at latitude 39, longitude -92, local offset -5 h for
\* the day numbers around PreviewDay (sunrise 7.198 / 7.172 / 7.146 h, sunset
\* 19.331 / 19.347 / 19.364 h).
SunOfDay(N) ==
    CASE N = 79 -> [riseCosH |-> -2, riseT |-> 3120, setCosH |-> -2, setT |-> -467]
      [] N = 80 -> [riseCosH |-> -2, riseT |-> 717, setCosH |-> -2, setT |-> -465]
      [] OTHER -> [riseCosH |-> -3, riseT |-> 715, setCosH |-> -3, setT |-> -464]

\* Wall-clock times of the two runs, the overrides of the preview tool and
\* the daylight-saving shift of the date.
PreviewWalls == {30, 150, 1200}
PreviewOverrides == {Some(0), Some(685), Some(720), Some(1200), Some(1950), Some(2300)}
DstShifts == {0, 1}

\* One run of the display on the preview date at wall-clock time `wall`:
\* mount with the observation w and the override t, then one clock tick.
PreviewRunAt(w, t, wall, shift) ==
    LET c == SunOfDay(DayNumber(PreviewDay, wall, shift))
        h == HourNow(t, wall)
        s1 == TickClockFn([WxInit EXCEPT !.mounted = TRUE], h, c)
        s2 == Render(Render(s1, w, h, c), w, h, c)
    IN TickClockFn(s2, h, c)

\* What the claim compares between two runs: the themes render() classified,
\* the styles of the sun and the moon, and their progress along the arc.
PreviewOutcome(w, t, wall, shift) ==
    LET c == SunOfDay(DayNumber(PreviewDay, wall, shift))
        h == HourNow(t, wall)
        st == GetSunTimes(c)
        s == PreviewRunAt(w, t, wall, shift)
        placed == ~IsNull(w.lat) /\ ~IsNull(w.lon)
                  /\ ~IsNull(st.sunrise) /\ ~IsNull(st.sunset)
    IN [precip |-> s.cond, sky |-> s.currentTheme, sun |-> s.sun, moon |-> s.moon,
        sunT |-> IF placed THEN Some(SunT(h, Val(st.sunrise), Val(st.sunset))) ELSE Null,
        moonT |-> IF placed THEN MoonT(h, Val(st.sunrise), Val(st.sunset)) ELSE Null,
        day |-> DayNumber(PreviewDay, wall, shift)]

InitPreview ==
    /\ wx = WxInit
    /\ props \in [data : {Some(w) : w \in {ObsDry, ObsRain, ObsNoCoords}},
                  timeOverride : PreviewOverrides]
    /\ clock \in PreviewWalls
    /\ probe \in [done : {FALSE}, shift : DstShifts, a : {Null}, b : {Null}]
    /\ sunCalc = SunOfDay(DayNumber(PreviewDay, clock, probe.shift))
    /\ page = NoPage
    /\ server = NoServer

\* The display runs at the wall-clock time `clock`, and once more at another
\* time of the same day with the same observation and override.
PreviewTwice ==
    /\ ~probe.done
    /\ \E other \in PreviewWalls :
         /\ probe' = [probe EXCEPT
                 !.done = TRUE,
                 !.a = Some(PreviewOutcome(Val(props.data), props.timeOverride,
                                           clock, probe.shift)),
                 !.b = Some(PreviewOutcome(Val(props.data), props.timeOverride,
                                           other, probe.shift))]
    /\ wx' = PreviewRunAt(Val(props.data), props.timeOverride, clock, probe.shift)
    /\ UNCHANGED <<props, clock, sunCalc, page, server>>

NextPreview == PreviewTwice

SpecPreview == InitPreview /\ [][NextPreview]_vars


\* ------------------------------------------------------- image list cache

\* A file name is the sequence of its characters.  The collation order of the
\* characters that occur in the sample names (punctuation, digits, letters).
Collation == <<"_", ".", "0", "1", "2", "3", "4", "5", "6", "7", "8", "9",
               "a", "b", "c", "d", "e", "g", "j", "m", "M", "n", "p", "s", "x">>
CharRank(ch) == CHOOSE i \in 1..Len(Collation) : Collation[i] = ch

\* a.localeCompare(b) < 0
RECURSIVE NameBefore(_, _)
NameBefore(a, b) ==
    IF b = << >> THEN FALSE
    ELSE IF a = << >> THEN TRUE
    ELSE IF Head(a) = Head(b) THEN NameBefore(Tail(a), Tail(b))
    ELSE CharRank(Head(a)) < CharRank(Head(b))

\* A Drive image as the server lists it: {id, name, url: `/image/${id}`}.
DriveImage(id, name) == [id |-> id, name |-> name]

\* The files a Drive folder may hold: a.jpg, b_3s.jpg, c_0s.png, d_1m2s.jpg,
\* e_1Mx.jpg.
FileA == DriveImage("idA", <<"a", ".", "j", "p", "g">>)
FileB == DriveImage("idB", <<"b", "_", "3", "s", ".", "j", "p", "g">>)
FileC == DriveImage("idC", <<"c", "_", "0", "s", ".", "p", "n", "g">>)
FileD == DriveImage("idD", <<"d", "_", "1", "m", "2", "s", ".", "j", "p", "g">>)
FileE == DriveImage("idE", <<"e", "_", "1", "M", "x", ".", "j", "p", "g">>)

\* The folder's contents in the order its page names them.
Folders == {<< >>, <<FileA>>, <<FileB, FileA>>, <<FileC, FileA, FileC>>, <<FileD, FileB>>,
            <<FileE, FileB>>}

\* What fetching the folder page gives: fetch() or res.text() throws, or a
\* page arrives: the folder's listing, or a page that is no listing (an error
\* page, a sign-in page), in which no file name appears.
DriveThrow == [kind |-> "throw", names |-> << >>]
DriveErrorPage == [kind |-> "error", names |-> << >>]
DriveListing(folder) == [kind |-> "listing", names |-> folder]

\* The files of a page, each name and each id once, in order of appearance.
RECURSIVE FilesOfPage(_, _)
FilesOfPage(names, files) ==
    IF names = << >> THEN files
    ELSE LET f == Head(names) IN
         IF \E i \in 1..Len(files) : files[i].name = f.name \/ files[i].id = f.id
         THEN FilesOfPage(Tail(names), files)
         ELSE FilesOfPage(Tail(names), Append(files, f))

\* files.sort((a, b) => a.name.localeCompare(b.name))
RECURSIVE InsertByName(_, _)
InsertByName(sorted, f) ==
    IF sorted = << >> THEN <<f>>
    ELSE IF NameBefore(f.name, Head(sorted).name) THEN <<f>> \o sorted
    ELSE <<Head(sorted)>> \o InsertByName(Tail(sorted), f)

RECURSIVE SortByName(_)
SortByName(files) ==
    IF files = << >> THEN << >>
    ELSE InsertByName(SortByName(SubSeq(files, 1, Len(files) - 1)), files[Len(files)])

\* An ImageCache {images, lastUpdate}; lastUpdate in hours.
ImageCache(images, lastUpdate) == [images |-> images, lastUpdate |-> lastUpdate]

\* The image server after module load: memCache is the persisted cache when
\* image_cache.json exists, {images: [], lastUpdate: 0} otherwise.  `now` is
\* Date.now() in hours; `drive` is the folder as it is on Drive.
\* lastListing is history: the images of the last folder listing that was
\* fetched (by this process or by the one that wrote the file).
ImageServerInit(folderId, disk, drive) ==
    [folderId |-> folderId,
     memCache |-> IF IsNull(disk) THEN ImageCache(<< >>, 0) ELSE Val(disk),
     disk |-> disk, drive |-> drive, now |-> 2,
     lastListing |-> IF IsNull(disk) THEN Null ELSE Some(Val(disk).images)]

\* isCacheStale(): Date.now() - memCache.lastUpdate > CACHE_DURATION_MS (1 h).
IsCacheStale(sv) == sv.now - sv.memCache.lastUpdate > 1

\* fetchPublicFolder(folderId) when the folder page fetch gives `out`.
FetchPublicFolder(sv, out) ==
    IF sv.folderId = "" THEN sv
    ELSE IF out.kind = "throw" THEN sv
    ELSE LET files == SortByName(FilesOfPage(out.names, << >>))
             cache == ImageCache(files, sv.now)
         IN [sv EXCEPT !.memCache = cache, !.disk = Some(cache),
                       !.lastListing = IF out.kind = "listing" THEN Some(files) ELSE @]

\* What an endpoint answers: the list (for /api/images) and the count.
ImageReport(endpoint, sv) ==
    [endpoint |-> endpoint,
     images |-> IF endpoint = "images" THEN sv.memCache.images ELSE << >>,
     count |-> Len(sv.memCache.images)]

\* GET /api/images: refresh if stale, then report the cache.
ApiImagesGet(sv, out) ==
    LET s1 == IF IsCacheStale(sv) THEN FetchPublicFolder(sv, out) ELSE sv
    IN [server |-> s1, resp |-> ImageReport("images", s1)]

\* GET /api/refresh: refresh, then report the count.
ApiRefreshGet(sv, out) ==
    LET s1 == FetchPublicFolder(sv, out)
    IN [server |-> s1, resp |-> ImageReport("refresh", s1)]

\* GET /api/health: report the count.
ApiHealthGet(sv) == [server |-> sv, resp |-> ImageReport("health", sv)]

\* What Drive may answer to one fetch of the folder page.
DriveOutcomes(sv) == {DriveThrow, DriveErrorPage, DriveListing(sv.drive)}


\* The image server on its own: requests to its three endpoints arrive while
\* hours pass and the folder on Drive changes.  probe holds the last answer.
InitImages ==
    /\ wx = WxInit
    /\ props = [data |-> Null, timeOverride |-> Null]
    /\ clock = 1200
    /\ sunCalc = SunOrdinary
    /\ probe = Null
    /\ page = NoPage
    /\ \E folderId \in {"", "folder"},
          disk \in {Null, Some(ImageCache(<<FileA>>, 1))},
          drive \in Folders :
         server = ImageServerInit(folderId, disk, drive)

ImagesRequested ==
    /\ \E out \in DriveOutcomes(server) :
         LET r == ApiImagesGet(server, out) IN
         server' = r.server /\ probe' = Some(r.resp)
    /\ UNCHANGED <<wx, props, clock, sunCalc, page>>

RefreshRequested ==
    /\ \E out \in DriveOutcomes(server) :
         LET r == ApiRefreshGet(server, out) IN
         server' = r.server /\ probe' = Some(r.resp)
    /\ UNCHANGED <<wx, props, clock, sunCalc, page>>

HealthRequested ==
    /\ probe' = Some(ApiHealthGet(server).resp)
    /\ UNCHANGED <<wx, props, clock, sunCalc, page, server>>

\* An hour passes on the server's clock.
HourPasses ==
    /\ server.now < MaxNow
    /\ server' = [server EXCEPT !.now = @ + 1]
    /\ UNCHANGED <<wx, props, clock, sunCalc, probe, page>>

\* Images are added to or removed from the folder on Drive.
DriveChanges ==
    /\ \E folder \in Folders \ {server.drive} :
         server' = [server EXCEPT !.drive = folder]
    /\ UNCHANGED <<wx, props, clock, sunCalc, probe, page>>

NextImages ==
    \/ ImagesRequested \/ RefreshRequested \/ HealthRequested
    \/ HourPasses \/ DriveChanges

SpecImages == InitImages /\ [][NextImages]_vars


\* ---------------------------------------------------------- slideshow page

Digits == <<"0", "1", "2", "3", "4", "5", "6", "7", "8", "9">>
IsDigit(ch) == \E i \in 1..10 : Digits[i] = ch
DigitVal(ch) == (CHOOSE i \in 1..10 : Digits[i] = ch) - 1
\* \w of the regular expressions: a letter, a digit or the underscore.
IsWordChar(ch) == ch # "."

\* parseInt of a run of digits.
RECURSIVE ParseInt(_)
ParseInt(ds) ==
    IF ds = << >> THEN 0
    ELSE 10 * ParseInt(SubSeq(ds, 1, Len(ds) - 1)) + DigitVal(ds[Len(ds)])

\* name.replace(/\.[^.]+$/, ''): the last dot and what follows it are cut,
\* provided something follows.
StripExtension(name) ==
    LET dots == {i \in 1..Len(name) : name[i] = "."} IN
    IF dots = {} THEN name
    ELSE LET last == CHOOSE i \in dots : \A j \in dots : j <= i IN
         IF last = Len(name) THEN name ELSE SubSeq(name, 1, last - 1)

\* The end of the longest run of digits of s that starts at i (i - 1: none).
DigitsEnd(s, i) ==
    CHOOSE j \in (i - 1)..Len(s) :
        /\ \A k \in i..j : IsDigit(s[k])
        /\ j = Len(s) \/ ~IsDigit(s[j + 1])

\* The i flag of the patterns: the unit letter in either case.
UnitIs(ch, unit) ==
    \/ ch = unit
    \/ unit = "m" /\ ch = "M"
    \/ unit = "s" /\ ch = "S"

\* A match of /_(\d+)<unit>/i at position p of s: the value of the digits and
\* the position after the unit letter; Null when there is none there.
NumberUnitAt(s, p, unit) ==
    IF p > Len(s) \/ s[p] # "_" THEN Null
    ELSE LET e == DigitsEnd(s, p + 1) IN
         IF e < p + 1 \/ e + 1 > Len(s) \/ ~UnitIs(s[e + 1], unit) THEN Null
         ELSE Some([val |-> ParseInt(SubSeq(s, p + 1, e)), next |-> e + 2])

\* A match of /_(\d+)m(\d+)s/ at position p: minutes * 60 + seconds.
FullAt(s, p) ==
    LET mm == NumberUnitAt(s, p, "m") IN
    IF IsNull(mm) THEN Null
    ELSE LET b == Val(mm).next
             e == DigitsEnd(s, b) IN
         IF e < b \/ e + 1 > Len(s) \/ ~UnitIs(s[e + 1], "s") THEN Null
         ELSE Some(Val(mm).val * 60 + ParseInt(SubSeq(s, b, e)))

\* A match of /_(\d+)m(?!\d)/ at position p: minutes * 60.
MinsAt(s, p) ==
    LET mm == NumberUnitAt(s, p, "m") IN
    IF IsNull(mm) THEN Null
    ELSE IF Val(mm).next <= Len(s) /\ IsDigit(s[Val(mm).next]) THEN Null
    ELSE Some(Val(mm).val * 60)

\* A match of /_(\d+)s(?!\w)/ at position p: seconds.
SecsAt(s, p) ==
    LET ss == NumberUnitAt(s, p, "s") IN
    IF IsNull(ss) THEN Null
    ELSE IF Val(ss).next <= Len(s) /\ IsWordChar(s[Val(ss).next]) THEN Null
    ELSE Some(Val(ss).val)

\* String.prototype.match without the g flag: the leftmost match.
Leftmost(s, At(_, _)) ==
    LET hits == {p \in 1..Len(s) : ~IsNull(At(s, p))} IN
    IF hits = {} THEN Null
    ELSE At(s, CHOOSE p \in hits : \A q \in hits : p <= q)

\* parseDuration(name): Null for null.
ParseDuration(name) ==
    LET base == StripExtension(name)
        full == Leftmost(base, FullAt)
        mins == Leftmost(base, MinsAt)
        secs == Leftmost(base, SecsAt)
    IN IF ~IsNull(full) THEN full
       ELSE IF ~IsNull(mins) THEN mins
       ELSE secs

\* The slides.
WeatherSlide == [type |-> "weather", name |-> << >>, duration |-> Null]
RadarSlide == [type |-> "radar", name |-> << >>, duration |-> Null]
ImageSlide(img) == [type |-> "image", name |-> img.name, duration |-> ParseDuration(img.name)]

\* buildSlides(images, hasWeather)
BuildSlides(images, hasWeather) ==
    (IF hasWeather THEN <<WeatherSlide, RadarSlide>> ELSE << >>)
        \o [i \in 1..Len(images) |-> ImageSlide(images[i])]

\* cfg.slideshow as /api/config sends it: either duration may be missing.
SlideshowCfg(image, weather) ==
    [image_duration_seconds |-> image, weather_duration_seconds |-> weather]

\* The page's cfg before loadConfig() has answered.
SlideshowCfgDefault == SlideshowCfg(Some(10), Some(15))

\* a ?? b
OrElse(a, b) == IF IsNull(a) THEN b ELSE a

\* currentDuration() for the slide list, the index (from 0) and the config.
CurrentDuration(slides, current, cfg) ==
    IF Len(slides) = 0 THEN 10
    ELSE LET s == slides[current + 1] IN
         IF s.type \in {"weather", "radar"}
         THEN Val(OrElse(cfg.weather_duration_seconds, Some(15)))
         ELSE Val(OrElse(s.duration, OrElse(cfg.image_duration_seconds, Some(10))))

\* The slideshow page before onMount.  shown is history: the ticks for which
\* the current slide has been current; left: the slide that was left last,
\* with the ticks it stayed.
ShowPage ==
    [kind |-> "show", phase |-> "start", cfg |-> SlideshowCfgDefault,
     slides |-> << >>, current |-> 0, countdown |-> 0,
     shown |-> 0, left |-> Null]

\* init(): loadConfig, loadWeather, loadImages, buildSlides, current = 0,
\* countdown = currentDuration(), and the ticker is armed.
ShowInitWith(pg, cfg, hasWeather, images) ==
    LET slides == BuildSlides(images, hasWeather) IN
    [pg EXCEPT !.phase = "running", !.cfg = cfg, !.slides = slides,
               !.current = 0, !.countdown = CurrentDuration(slides, 0, cfg)]

\* One run of the ticker callback.
TickerFn(pg) ==
    LET countdown == pg.countdown - 1 IN
    IF countdown <= 0
    THEN LET n == IF Len(pg.slides) = 0 THEN 1 ELSE Len(pg.slides)
             current == (pg.current + 1) % n
         IN [pg EXCEPT !.current = current,
                       !.countdown = CurrentDuration(pg.slides, current, pg.cfg),
                       !.shown = 0,
                       !.left = Some([index |-> pg.current, ticks |-> pg.shown + 1])]
    ELSE [pg EXCEPT !.countdown = countdown, !.shown = @ + 1]


\* What /api/config may send as cfg.slideshow, and the page's own default
\* when loadConfig() throws.
ShowConfigs ==
    {SlideshowCfgDefault, SlideshowCfg(Null, Null), SlideshowCfg(Some(1), Some(2))}

\* onMount: init() of the slideshow page.  loadImages() asks /api/images,
\* which refreshes a stale cache from Drive; when the fetch throws the page
\* has no images.
ShowInit ==
    /\ page.kind = "show" /\ page.phase = "start"
    /\ \E cfg \in ShowConfigs, hasWeather \in BOOLEAN :
         \/ \E out \in DriveOutcomes(server) :
              LET r == ApiImagesGet(server, out) IN
              /\ server' = r.server
              /\ page' = ShowInitWith(page, cfg, hasWeather, r.resp.images)
         \/ /\ server' = server
            /\ page' = ShowInitWith(page, cfg, hasWeather, << >>)
    /\ UNCHANGED <<wx, props, clock, sunCalc, probe>>

\* The one-second ticker fires.  (The loadWeather() it starts on reaching the
\* weather slide is SlideTickerLoad of the weather fetch path.)
ShowTick ==
    /\ page.kind = "show" /\ page.phase = "running"
    /\ page' = TickerFn(page)
    /\ UNCHANGED <<wx, props, clock, sunCalc, probe, server>>

InitShow ==
    /\ wx = WxInit
    /\ props = [data |-> Null, timeOverride |-> Null]
    /\ clock = 1200
    /\ sunCalc = SunOrdinary
    /\ probe = Null
    /\ page = ShowPage
    /\ \E disk \in {Null, Some(ImageCache(<<FileA>>, 1))}, drive \in Folders :
         server = ImageServerInit("folder", disk, drive)

NextShow == ShowInit \/ ShowTick

SpecShow == InitShow /\ [][NextShow]_vars

\* The running slideshow with a ticker that keeps firing.
SpecShowLive == SpecShow /\ WF_vars(ShowTick)

\* The slideshow left running while hours pass, the folder on Drive changes
\* and Drive answers every fetch with the folder's listing.
ShowInitOnline ==
    /\ page.kind = "show" /\ page.phase = "start"
    /\ \E hasWeather \in BOOLEAN :
         LET r == ApiImagesGet(server, DriveListing(server.drive)) IN
         /\ server' = r.server
         /\ page' = ShowInitWith(page, SlideshowCfg(Some(1), Some(1)), hasWeather,
                                 r.resp.images)
    /\ UNCHANGED <<wx, props, clock, sunCalc, probe>>

\* The folder changes while there are hours left for the cache to grow old.
DriveChangesEarly ==
    /\ server.now + 2 <= MaxNow
    /\ DriveChanges

NextUnattended == ShowInitOnline \/ ShowTick \/ HourPasses \/ DriveChangesEarly

SpecUnattended ==
    /\ InitShow /\ [][NextUnattended]_vars
    /\ WF_vars(ShowTick) /\ WF_vars(HourPasses)


\* ------------------------------------------- celestial bodies under precip

\* Rain reported by an observation that carries no coordinates.
ObsRainNoCoords == MkObs(Null, Null, Some(2), Some(60), Some(5), Some(4), Some(50), Some(3), Some(180))
ObsBodies == {ObsDry, ObsRain, ObsRainNoCoords}

InitBodies ==
    /\ wx = WxInit
    /\ props \in [data : {Null} \cup {Some(w) : w \in ObsBodies}, timeOverride : {Null}]
    /\ clock \in ClockSet
    /\ sunCalc = SunOrdinary
    /\ probe = ProbeInit
    /\ page = NoPage
    /\ server = NoServer

NextBodies ==
    \/ Mount
    \/ \E w \in ObsBodies : DataChanged(w)
    \/ AdvanceClock
    \/ TickClock
    \/ FireTreeRebuild
    \/ AlertSettles

SpecBodies == InitBodies /\ [][NextBodies]_vars


\* -------------------------------------------------------- the alert banner

\* The alert responses of the banner scenario: up to MaxAlerts features, each
\* an Actual alert of any severity (a missing severity included) or a test
\* message.
Severities == {"Extreme", "Severe", "Moderate", "Minor", "Unknown", ""}
AlertFeatures == {Feature("Actual", sv) : sv \in Severities} \cup {Feature("Test", "Extreme")}
AlertFeeds == UNION {[1..n -> AlertFeatures] : n \in 0..MaxAlerts}
AlertsAny == {AlertThrow, AlertError} \cup {AlertOk(feats) : feats \in AlertFeeds}

AlertSettlesAny == AlertSettlesFrom(AlertsAny)

InitAlerts ==
    /\ wx = WxInit
    /\ props = [data |-> Some(ObsDry), timeOverride |-> Null]
    /\ clock = 1200
    /\ sunCalc = SunOrdinary
    /\ probe = ProbeInit
    /\ page = NoPage
    /\ server = NoServer

NextAlerts ==
    \/ Mount
    \/ \E w \in {ObsDry, ObsRain} : DataChanged(w)
    \/ AlertSettlesAny

SpecAlerts == InitAlerts /\ [][NextAlerts]_vars


\* ================================================================== claims

\* The observation the display rendered last.
Rendered == Val(wx.celestialData)

\* The sun times of the running scenario.
Sunrise == GetSunTimes(sunCalc).sunrise
Sunset == GetSunTimes(sunCalc).sunset

\* C1: once applyTheme has run, no timer or frame callback that a particle
\* system armed before that call fires afterwards.  A callback armed before
\* the latest applyTheme is marked stale, and a pending callback leaves the
\* pending set only by firing or by being cancelled, so the claim says that a
\* stale particle callback that is pending stays pending for ever.
C1_NoCallbackArmedBeforeApplyThemeFires ==
    [][ /\ \A t \in wx.timers :
              (t.stale /\ t.kind \in ParticleTimerKinds) => t \in wx'.timers
        /\ \A f \in wx.frames : f.stale => f \in wx'.frames ]_vars

\* C2: for every non-null sunrise and sunset in [0, 24) and every hour,
\* positionCelestialBodies never leaves the sun and the moon both with an
\* alpha above 0.
C2_SunAndMoonNeverBothVisible ==
    (wx.rendered /\ WantsAlerts(Rendered) /\ ~IsNull(Sunrise) /\ ~IsNull(Sunset))
        => ~(wx.sun.opacity > 0 /\ wx.moon.opacity > 0)


\* C1 (the case): a second flash is lit while the condition shown is no storm.
C1_FlashUnderDryTheme ==
    wx.flash = 26 /\ wx.cond \notin PrecipThemes /\ wx.svgDisplay = "none"

\* C2 (the case): sunrise after sunset, both bodies shown.
C2_BothShown ==
    /\ wx.rendered /\ ~IsNull(Sunrise) /\ ~IsNull(Sunset)
    /\ Val(Sunrise) > Val(Sunset)
    /\ wx.sun.display = "block" /\ wx.sun.opacity > 0
    /\ wx.moon.display = "block" /\ wx.moon.opacity > 0

SkyNow == InferSkyTheme(Rendered, Hour, sunCalc)
PrecipNow == InferTheme(Rendered, Hour, sunCalc)

C8_NoCoordsNoBodiesNoAlerts ==
    (wx.rendered /\ (IsNull(Rendered.lat) \/ IsNull(Rendered.lon))) =>
        /\ wx.currentTheme \in SkyThemes
        /\ wx.rootTheme = wx.currentTheme
        /\ ~wx.polled
        /\ wx.sun.display = "none"
        /\ wx.moon.display = "none"

\* C8 (the case): at midday an observation without coordinates is on display
\* after one with coordinates, whose alert poll is still in flight.
C8_NoCoordsAfterCoords ==
    /\ wx.rendered /\ ~WantsAlerts(Rendered)
    /\ wx.alertsInFlight > 0 /\ clock = 1200 /\ ~IsNull(Sunrise)


\* The observation handed to the classifiers and to the display.
Obs == Val(props.data)

\* C5: with precipRate > 0 inferTheme returns snow if temp <= 33, otherwise
\* storm if windGust > 20 or precipRate > 0.08, otherwise rain; with
\* precipRate missing or <= 0 it returns what inferSkyTheme returns.
C5_PrecipRulesThenSky ==
    probe.done =>
        LET raining == ~IsNull(Obs.precipRate) /\ Val(Obs.precipRate) > 0
            cold == ~IsNull(Obs.temp) /\ Val(Obs.temp) <= 33
            gusty == ~IsNull(Obs.windGust) /\ Val(Obs.windGust) > 20
            heavy == ~IsNull(Obs.precipRate) /\ Val(Obs.precipRate) > 8
        IN /\ (raining /\ cold) => probe.precip = "snow"
           /\ (raining /\ ~cold /\ (gusty \/ heavy)) => probe.precip = "storm"
           /\ (raining /\ ~cold /\ ~gusty /\ ~heavy) => probe.precip = "rain"
           /\ ~raining => probe.precip = probe.sky

\* C5 (the case): the rate alone makes a storm, gust and temp missing.
C5_StormByRateAlone ==
    /\ probe.done /\ probe.precip = "storm"
    /\ IsNull(Obs.windGust) /\ IsNull(Obs.temp) /\ Val(Obs.precipRate) = 9

\* h in [lo, hi).
In(h, lo, hi) == h >= lo /\ h < hi

\* The four sun-relative windows of the hour of the state.
InRise == In(Hour, Val(Sunrise) - 33, Val(Sunrise) + 83)
InDay == In(Hour, Val(Sunrise) + 83, Val(Sunset) - 150)
InGolden == In(Hour, Val(Sunset) - 150, Val(Sunset) - 50)
InSunset == In(Hour, Val(Sunset) - 50, Val(Sunset) + 50)

\* An observation with coordinates on a day with a sunrise and a sunset.
HasSunTimes ==
    ~IsNull(Obs.lat) /\ ~IsNull(Obs.lon) /\ ~IsNull(Sunrise) /\ ~IsNull(Sunset)

\* C6 (as stated): with coordinates and both sun times, inferSkyTheme returns
\* each theme exactly when the hour is in that theme's window, and night for
\* every other hour.
C6_EachThemeExactlyItsWindow ==
    (probe.done /\ HasSunTimes) =>
        /\ (probe.sky = "rise") <=> InRise
        /\ (probe.sky = "day") <=> InDay
        /\ (probe.sky = "golden") <=> InGolden
        /\ (probe.sky = "sunset") <=> InSunset
        /\ (probe.sky = "night") <=> ~(InRise \/ InDay \/ InGolden \/ InSunset)

\* C6 (amended): the windows are tested in the order rise, day, golden,
\* sunset and the first that holds the hour wins: rise exactly in the rise
\* window, day exactly in the day window, golden and sunset exactly in their
\* windows outside the rise window, night for every other hour.
C6_FirstMatchingWindow ==
    (probe.done /\ HasSunTimes) =>
        /\ (probe.sky = "rise") <=> InRise
        /\ (probe.sky = "day") <=> InDay
        /\ (probe.sky = "golden") <=> (InGolden /\ ~InRise)
        /\ (probe.sky = "sunset") <=> (InSunset /\ ~InRise)
        /\ (probe.sky = "night") <=> ~(InRise \/ InDay \/ InGolden \/ InSunset)

\* C6 (the case): the hour is in the rise window and in the sunset window.
C6_RiseWinsOverSunset ==
    probe.done /\ HasSunTimes /\ InRise /\ InSunset /\ probe.sky = "rise"

\* The theme the fixed thresholds give the hour of the state.
FixedThresholds ==
    IF In(Hour, 500, 700) THEN "rise"
    ELSE IF In(Hour, 700, 1700) THEN "day"
    ELSE IF In(Hour, 1700, 1900) THEN "golden"
    ELSE IF In(Hour, 1900, 2100) THEN "sunset"
    ELSE "night"

\* C7: when the observation lacks lat or lon, or getSunTimes returns null for
\* sunrise or for sunset, the sky classification is that of the fixed
\* thresholds, and the render completes with that theme applied.
C7_FixedThresholdsWithoutSunTimes ==
    ~HasSunTimes =>
        /\ probe.done => probe.sky = FixedThresholds
        /\ wx.rendered => (wx.currentTheme = FixedThresholds
                           /\ wx.rootTheme = FixedThresholds)

\* C7 (the case): coordinates and a sunrise but no sunset, at 17:00.
C7_NoSunsetGolden ==
    /\ probe.done /\ wx.rendered
    /\ ~IsNull(Obs.lat) /\ ~IsNull(Obs.lon) /\ ~IsNull(Sunrise) /\ IsNull(Sunset)
    /\ probe.sky = "golden" /\ Hour = 1700

\* C9: after a weather fetch that fails, the observation a page hands to the
\* display is still the last successfully fetched one, on the slideshow page
\* and on the standalone page: once a load has succeeded, weatherData is the
\* observation of the last load that succeeded.
C9_FailureKeepsLastObservation ==
    ~IsNull(page.lastGood) => page.weatherData = page.lastGood

\* C9 (the case): the standalone page hands the display an object without a
\* single field after a load had succeeded.
C9_StandaloneShowsEmpty ==
    /\ page.kind = "alone" /\ ~IsNull(page.lastGood)
    /\ page.weatherData = Some(EmptyObs)

\* What render(w) alone would show: every readout and severity from w, the
\* placeholder (no text, no data-sev) for a field w lacks.
ReadoutOf(w) ==
    [temp |-> w.temp, hum |-> w.humidity, wind |-> w.windSpeed,
     gust |-> w.windGust, uv |-> w.uv, precip |-> w.precipRate,
     wdir |-> IF IsNull(w.winddir) THEN "" ELSE WindDir(Val(w.winddir))]
SevOf(w) ==
    [hum |-> IF IsNull(w.humidity) THEN "" ELSE HumSev(Val(w.humidity)),
     wind |-> IF IsNull(w.windSpeed) THEN "" ELSE WindSev(Val(w.windSpeed)),
     gust |-> IF IsNull(w.windGust) THEN "" ELSE WindSev(Val(w.windGust)),
     uv |-> IF IsNull(w.uv) THEN "" ELSE UvSev(Val(w.uv)),
     temp |-> IF IsNull(w.temp) THEN "" ELSE TempSev(Val(w.temp))]

\* C10: after render(w2) every readout, the wind-direction label and every
\* severity indicator depend only on w2.
C10_ReadoutsOfLatestOnly ==
    wx.rendered => (wx.readout = ReadoutOf(Rendered) /\ wx.sev = SevOf(Rendered))

\* C10 (the case): the humidity readout shows its placeholder in the
\* severity of an earlier observation, beside an earlier wind direction.
C10_StaleSeverity ==
    /\ wx.rendered /\ IsNull(Rendered.humidity) /\ IsNull(Rendered.winddir)
    /\ wx.readout.hum = Null /\ wx.sev.hum = "extreme" /\ wx.readout.wdir = "S"


\* ---------------------------------------------------------------------------
\* C11.  Whenever the alert poll that last came back held at least one alert
\* of status "Actual", the banner's severity class is that of an Actual alert
\* of the highest severity under Extreme > Severe > Moderate > Minor > Unknown.

LastFeed == Val(wx.lastAlert)

\* The best (lowest) rank among the Actual alerts of a response.
TopRank(feats) ==
    LET active == ActiveAlerts(feats)
    IN CHOOSE r \in 0..4 :
         /\ \E i \in 1..Len(active) : SeverityRank(active[i].severity) = r
         /\ \A i \in 1..Len(active) : SeverityRank(active[i].severity) >= r

C11_BannerShowsMostSevere ==
    (~IsNull(wx.lastAlert) /\ Len(ActiveAlerts(LastFeed)) > 0) =>
        \E i \in 1..Len(ActiveAlerts(LastFeed)) :
            LET f == ActiveAlerts(LastFeed)[i] IN
            /\ SeverityRank(f.severity) = TopRank(LastFeed)
            /\ wx.alertClass = SevClass(f)

\* An Extreme and a Severe alert came back and the banner shows the Severe one.
C11_SevereShownOverExtreme ==
    /\ wx.lastAlert = Some(<<Feature("Actual", "Extreme"), Feature("Actual", "Severe")>>)
    /\ wx.alertBar = "block"
    /\ wx.alertClass = "sev-severe"


\* ---------------------------------------------------------------------------
\* C12.  In every state the root carries has-alert exactly when the banner is
\* displayed, theme applications included; and once an alert poll has come
\* back, the banner is displayed exactly when the response that came back
\* last holds an alert of status "Actual".
C12_HasAlertIffBannerShown ==
    /\ wx.hasAlert <=> wx.alertBar = "block"
    /\ ~IsNull(wx.lastAlert) =>
          (wx.alertBar = "block" <=> Len(ActiveAlerts(LastFeed)) > 0)

\* A poll came back with an Actual alert among others, and a rain theme was
\* applied after it: every poll slot is taken again, the banner still shows.
C12_BannerKeptAcrossTheme ==
    /\ ~IsNull(wx.lastAlert)
    /\ Len(ActiveAlerts(LastFeed)) > 0 /\ Len(ActiveAlerts(LastFeed)) < Len(LastFeed)
    /\ wx.alertsInFlight = MaxAlertsInFlight
    /\ wx.isPrecipClass /\ wx.hasAlert /\ wx.alertBar = "block"


\* ---------------------------------------------------------------------------
\* C13.  Alert polls complete in any order and none is cancelled; after each
\* completion the banner is that of the poll that last completed
\* successfully (hidden before any did), a failed completion changing nothing.
C13_BannerOfLastSuccessfulPoll ==
    IF IsNull(wx.lastGoodAlert)
    THEN wx.alertBar = "none" /\ ~wx.hasAlert
    ELSE LET b == ShowAlerts(wx, Val(wx.lastGoodAlert)) IN
         /\ wx.alertBar = b.alertBar /\ wx.hasAlert = b.hasAlert
         /\ wx.alertClass = b.alertClass /\ wx.alertExtra = b.alertExtra

\* The last successful poll reported an Actual alert, a later poll came back
\* with an error status and a JSON body, and the banner is hidden.
C13_ErrorBodyClearedBanner ==
    /\ ~IsNull(wx.lastGoodAlert) /\ Len(ActiveAlerts(Val(wx.lastGoodAlert))) > 0
    /\ wx.lastAlert = Some(<< >>)
    /\ wx.alertBar = "none" /\ ~wx.hasAlert

\* The slideshow page's half of C13: the observation it hands to the display
\* is that of its last load that completed successfully.
SlideLoadsLastCompletedWins ==
    page.kind = "slide" => page.weatherData = page.lastGood


\* ---------------------------------------------------------------------------
\* C14.  While the theme applied last is a precipitation theme, after the
\* render and after every clock tick, whatever the hour: the sun and the moon
\* are not displayed, and the sun's opacity is 0 if the rendered observation
\* has coordinates and the day has a sunrise and a sunset.
PrecipApplied == wx.rendered /\ wx.isPrecip

C14_BodiesHiddenUnderPrecip ==
    PrecipApplied =>
        /\ wx.sun.display = "none" /\ wx.moon.display = "none"
        /\ (WantsAlerts(Rendered) /\ ~IsNull(Sunrise) /\ ~IsNull(Sunset)) =>
              wx.sun.opacity = 0

\* The statement of C14 as given: the sun's opacity is 0 under every
\* precipitation theme.
C14_SunOpacityZeroUnderPrecip ==
    PrecipApplied =>
        /\ wx.sun.display = "none" /\ wx.moon.display = "none"
        /\ wx.sun.opacity = 0

\* Rain rendered in the morning with coordinates, the clock now at noon:
\* both bodies hidden, the sun at opacity 0.
C14_RainAtNoonHidesSun ==
    /\ PrecipApplied /\ WantsAlerts(Rendered)
    /\ wx.renderedAt = 600 /\ clock = 1200
    /\ wx.sun.display = "none" /\ wx.sun.opacity = 0 /\ wx.moon.display = "none"


\* ---------------------------------------------------------------------------
\* C15.  After any sequence of drags, POST /api/arc saves and loads merged
\* over ARC_DEFAULTS, the arc stored (read over the defaults) and the arc the
\* page hands to the renderer have xLeft < xRight.
Ordered(arc) ==
    (IsFiniteNumber(arc["xLeft"]) /\ IsFiniteNumber(arc["xRight"])) =>
        arc["xLeft"].v < arc["xRight"].v

C15_XLeftBelowXRight ==
    /\ Ordered(page.arcConfig)
    /\ ~IsNull(server.arc) => Ordered(MergeArc(Val(server.arc)))

\* A POST stored xLeft 95 alone, and a page that loaded it hands the renderer
\* xLeft 95 with the default xRight 92.
C15_PostedXLeftBeyondXRight ==
    /\ server.arcPosted
    /\ page.arcLoaded
    /\ page.arcConfig["xLeft"] = Num(95) /\ page.arcConfig["xRight"] = Num(92)

\* ---------------------------------------------------------------------------
\* C16.  The arc a POST /api/arc persisted holds only the five arc keys, with
\* finite numbers; and the arc a page hands to the renderer has all five
\* fields as finite numbers, whatever the store and the endpoints returned.
WellFormed(arc) ==
    /\ ArcAllowed \subseteq DOMAIN arc
    /\ \A k \in ArcAllowed : IsFiniteNumber(arc[k])

PostedArcFiltered ==
    server.arcPosted =>
        /\ DOMAIN Val(server.arc) \subseteq ArcAllowed
        /\ \A k \in DOMAIN Val(server.arc) : IsFiniteNumber(Val(server.arc)[k])

C16_RendererGetsWellFormedArc ==
    /\ PostedArcFiltered
    /\ WellFormed(page.arcConfig)

\* No POST has been made; config.json holds a string for xLeft and the page
\* that loaded it hands the renderer that string.
C16_StringFromConfigFile ==
    /\ ~server.arcPosted /\ page.arcLoaded
    /\ page.arcConfig["xLeft"] = Text


\* ---------------------------------------------------------------------------
\* C17.  After a theme application the number of wind streaks is 0 under a
\* precipitation theme whatever the wind; otherwise it is 0 below 5 mph, at
\* most 22, exactly 22 from 55 mph on, and no lower speed gives more streaks.
RenderedWind == IF IsNull(Rendered.windSpeed) THEN 0 ELSE Val(Rendered.windSpeed)

C17_StreaksByWindSpeed ==
    wx.rendered =>
        IF wx.isPrecip THEN wx.streaks = 0
        ELSE /\ RenderedWind < 5 => wx.streaks = 0
             /\ wx.streaks <= 22
             /\ RenderedWind >= 55 => wx.streaks = 22
             /\ \A v \in 0..RenderedWind : BuildWindStreaks(wx, v).streaks <= wx.streaks

\* A dry observation with wind at MaxWind was rendered: 22 streaks.
C17_SaturatedAtHighWind ==
    /\ wx.rendered /\ ~wx.isPrecip
    /\ RenderedWind = MaxWind /\ wx.streaks = 22


\* ---------------------------------------------------------------------------
\* C18.  For every arc config of finite numbers: at t = 0 the position is
\* (xRight, yHorizon) if arcExp > 0; at t = 1/2 its y is yPeak for any arcExp;
\* at t = 1 its x is xLeft and, for arcExp >= 0.2, its y is within a
\* thousandth of the arc's height of yHorizon; and with xLeft < xRight the x
\* at every step before the last is greater than at the next step.
ArcField(k) == page.arcConfig[k].v
Abs(n) == IF n < 0 THEN -n ELSE n

XDecreases ==
    (ArcField("xLeft") < ArcField("xRight") /\ probe.t < ArcSteps) =>
        probe.pos.x > CelestialScreenPos(page.arcConfig, probe.t + 1).x

BothTimes == probe.done /\ ~IsNull(probe.times.sunrise) /\ ~IsNull(probe.times.sunset)

C19_SunriseBeforeSunset ==
    BothTimes =>
        /\ Val(probe.times.sunrise) >= 0 /\ Val(probe.times.sunrise) < DayLen
        /\ Val(probe.times.sunset) >= 0 /\ Val(probe.times.sunset) < DayLen
        /\ Val(probe.times.sunrise) < Val(probe.times.sunset)

\* Reykjavik near the solstice with the browser on UTC: sunrise 2:54, sunset
\* 0:03, the sunset past midnight wrapped to the start of the day.
C19_SunsetPastMidnight ==
    /\ BothTimes
    /\ sunCalc = SunAt(0, 144, 2259, -146, 0)
    /\ Val(probe.times.sunrise) = 290 /\ Val(probe.times.sunset) = 5

\* Both times are always inside the day.
SunTimesInsideDay ==
    BothTimes =>
        /\ Val(probe.times.sunrise) >= 0 /\ Val(probe.times.sunrise) < DayLen
        /\ Val(probe.times.sunset) >= 0 /\ Val(probe.times.sunset) < DayLen

\* What is armed and what exists among the particles.
RainLoopArmed == \E f \in wx.frames : f.type \in {"rain", "storm"}
SnowLoopArmed == \E f \in wx.frames : f.type = "snow"
LightningArmed == \E t \in wx.timers : t.kind = "strike"
ShootArmed == \E t \in wx.timers : t.kind = "shoot"

\* The pair the last applyTheme call was given.
AppliedPrecip == wx.cond \in {"rain", "storm", "snow"}
AppliedSky == wx.currentTheme

\* C20: once a theme pair (precipTheme, skyTheme) has been applied, the rain
\* frame loop is armed exactly for rain and storm, the lightning scheduler
\* exactly for storm, the snow frame loop exactly for snow; stars, the
\* shooting-star scheduler and fireflies exist exactly at night without
\* precipitation, mist exactly in rise, golden and sunset without
\* precipitation, and a dry day has none of them.
C20_ParticlesByThemePair ==
    wx.rendered =>
        /\ RainLoopArmed <=> wx.cond \in {"rain", "storm"}
        /\ LightningArmed <=> wx.cond = "storm"
        /\ SnowLoopArmed <=> wx.cond = "snow"
        /\ wx.stars > 0 <=> (~AppliedPrecip /\ AppliedSky = "night")
        /\ ShootArmed <=> (~AppliedPrecip /\ AppliedSky = "night")
        /\ wx.fireflies > 0 <=> (~AppliedPrecip /\ AppliedSky = "night")
        /\ wx.mist # "" <=>
              (~AppliedPrecip /\ AppliedSky \in {"rise", "golden", "sunset"})
        /\ (~AppliedPrecip /\ AppliedSky = "day") =>
              /\ wx.frames = {} /\ ~LightningArmed /\ ~ShootArmed
              /\ wx.stars = 0 /\ wx.fireflies = 0 /\ wx.mist = ""

\* A storm applied over a night sky that had its stars: the rain loop and the
\* lightning are armed, the stars and their scheduler are gone.
C20_StormAtNightArmsLightningOnly ==
    /\ wx.rendered /\ wx.cond = "storm" /\ AppliedSky = "night"
    /\ RainLoopArmed /\ LightningArmed
    /\ wx.stars = 0 /\ ~ShootArmed
    /\ \E t \in wx.timers : t.kind = "shootRemove"

\* Two quotients with the same value (an absent one only equals an absent one).
SameProgress(x, y) ==
    IF IsNull(x) \/ IsNull(y) THEN x = y
    ELSE Val(x).n * Val(y).d = Val(y).n * Val(x).d

SameOutcome(x, y) ==
    /\ x.precip = y.precip /\ x.sky = y.sky
    /\ x.sun = y.sun /\ x.moon = y.moon
    /\ SameProgress(x.sunT, y.sunT) /\ SameProgress(x.moonT, y.moonT)

\* C21: with a time override supplied (0 included), two runs on the same date
\* that differ only in the wall-clock time of day classify the same precip and
\* sky themes and give the sun and the moon the same progress, opacity and
\* visibility.
C21_OverrideHidesWallClock ==
    probe.done => SameOutcome(Val(probe.a), Val(probe.b))

\* Two runs with override 7.20 h on a daylight-saving date, at 00:18 and at
\* 12:00: getSunTimes counts a different day number for each, and the sun is
\* shown in one run and not in the other.
C21_DayNumberMovesTheSun ==
    /\ probe.done /\ props.timeOverride = Some(720)
    /\ Val(probe.a).day # Val(probe.b).day
    /\ Val(probe.a).sun.opacity = 0 /\ Val(probe.b).sun.opacity > 0

\* Two runs for which getSunTimes counts the same day number agree.
OverrideHonouredWithinDayNumber ==
    (probe.done /\ Val(probe.a).day = Val(probe.b).day)
        => SameOutcome(Val(probe.a), Val(probe.b))

\* The override 0 is used as the hour, not replaced by the wall clock.
OverrideZeroIsMidnight ==
    (probe.done /\ props.timeOverride = Some(0)) => Val(probe.a).sky = "night"

\* C22: a refresh of the folder listing that fails (the fetch throws, or the
\* page that arrives is no folder listing) leaves the cached image list as it
\* was in memory and on disk: both always hold the images of the last listing
\* that was fetched, and that is what the endpoints report.
C22_CacheKeepsLastListing ==
    ~IsNull(server.lastListing) =>
        /\ server.memCache.images = Val(server.lastListing)
        /\ ~IsNull(server.disk) /\ Val(server.disk).images = Val(server.lastListing)
        /\ ~IsNull(probe) => Val(probe).count = Len(Val(server.lastListing))

\* An error page has emptied a cache that held a.jpg: memory and disk hold no
\* image and /api/images reports none.
C22_ErrorPageEmptiedCache ==
    /\ server.lastListing = Some(<<FileA>>)
    /\ server.memCache.images = << >>
    /\ server.disk = Some(server.memCache)
    /\ probe = Some([endpoint |-> "images", images |-> << >>, count |-> 0])

\* The endpoints always report the cache as it is.
ReportsAreOfTheCache ==
    ~IsNull(probe) => Val(probe).count = Len(server.memCache.images)

\* The cached list has each file once and is in name order.
CacheSortedByName ==
    LET im == server.memCache.images IN
    \A i, j \in 1..Len(im) : i < j => NameBefore(im[i].name, im[j].name)

\* The images among the page's slides, and the folder on Drive as a listing.
SlideImageNames == SelectSeq([i \in 1..Len(page.slides) |-> page.slides[i]],
                             LAMBDA s : s.type = "image")
DriveNow == SortByName(FilesOfPage(server.drive, << >>))
SlidesMatchDrive ==
    /\ page.phase = "running"
    /\ Len(SlideImageNames) = Len(DriveNow)
    /\ \A i \in 1..Len(DriveNow) : SlideImageNames[i].name = DriveNow[i].name

\* C23: with no manual refresh and no page reload, the server cache comes to
\* hold the folder's images and the running slideshow's slide list comes to
\* equal them and stays so, once the folder has stopped changing.
C23_SlidesFollowDrive ==
    [](page.phase = "running"
         => <>[](server.memCache.images = DriveNow /\ SlidesMatchDrive))

\* The slideshow is running on a slide list built before the folder changed;
\* the server's cache is more than an hour old and nothing has refreshed it.
C23_RunningOnOldList ==
    /\ page.phase = "running" /\ ~SlidesMatchDrive
    /\ IsCacheStale(server) /\ server.memCache.images # DriveNow
    /\ ~IsNull(page.left)

\* The slide list is never rebuilt once the slideshow runs.
SlidesFixedOnceRunning ==
    [][page.phase = "running" => page'.slides = page.slides]_vars


\* C24: in every reachable state at most one animation-frame request of the
\* rain/snow loop is pending, at most one strike timer and at most one
\* shooting-star spawn timer, and each pending one is the handle kept in
\* animId, lightningTimeout and shootTimeout.
C24_OnePendingPerLoop ==
    /\ Cardinality(wx.frames) <= 1
    /\ \A f \in wx.frames : f.id = wx.animId
    /\ Cardinality(Pending("strike")) <= 1
    /\ \A t \in Pending("strike") : t.id = wx.lightningTimeout
    /\ Cardinality(Pending("shoot")) <= 1
    /\ \A t \in Pending("shoot") : t.id = wx.shootTimeout

\* A strike has fired and armed the next one while the storm's frame loop is
\* pending.
C24_StrikeRearmedUnderStormLoop ==
    /\ wx.bolts
    /\ \E f \in wx.frames : f.type = "storm" /\ f.id = wx.animId
    /\ \E t \in Pending("strike") : t.id = wx.lightningTimeout

\* A shooting star has been spawned and the next spawn is armed.
ShootRearmed ==
    /\ wx.shootStars > 0
    /\ \E t \in Pending("shoot") : t.id = wx.shootTimeout


StormActive == wx.mounted /\ wx.cond = "storm"

\* Every pending lightning timer has its time to run, and no other has.
DueMatchesPending ==
    \A k \in StormKinds :
        /\ (probe.due[k] # NoDue) = (Pending(k) # {})
        /\ Cardinality(Pending(k)) <= 1
        /\ probe.due[k] >= NoDue

\* C25: while a storm is shown exactly one strike timer is pending; the
\* strike armed by buildLightning fires 800 ms to 3 s after it was armed and
\* one armed by a strike 3.5 s to 12.5 s after; a strike begins with the
\* overlay dark, no bolts drawn and no flash timer of the strike before
\* pending; the bright flash is lit at the strike for 72 ms, the dim one 130 ms
\* after the strike for 45 ms; a strike has one or two flashes, and when its
\* last flash has ended the bolts are gone and the overlay is at opacity 0.
C25_StormStrikes ==
    /\ StormActive => /\ Cardinality(Pending("strike")) = 1
                      /\ probe.due["strike"] >= 0
    /\ probe.flashes \in 0..2
    /\ probe.sinceStrike # NoDue => probe.flashes >= 1
    /\ ~IsNull(probe.log) =>
         LET l == Val(probe.log) IN
         /\ l.ev = "strike" =>
              /\ l.clean
              /\ l.first => l.gap >= 800 /\ l.gap < 3000
              /\ ~l.first => l.gap >= 3500 /\ l.gap < 12500
         /\ l.ev = "flashEnd" =>
              /\ l.clean
              /\ l.br => l.litAt = 0 /\ l.litFor = 72 /\ l.last = ~l.second
              /\ ~l.br => l.litAt = 130 /\ l.litFor = 45 /\ l.last
    /\ (probe.due["flashOff"] = NoDue /\ probe.due["flash2"] = NoDue) =>
         wx.flash = 0 /\ ~wx.bolts /\ wx.svgOpacity = 0

\* A strike armed by the strike before it has fired and lit the overlay.
C25_SecondStrikeLit ==
    /\ ~IsNull(probe.log) /\ Val(probe.log).ev = "strike" /\ ~Val(probe.log).first
    /\ wx.flash = 62 /\ wx.bolts

\* The dim second flash of a strike has ended.
SecondFlashEnded ==
    /\ ~IsNull(probe.log) /\ Val(probe.log).ev = "flashEnd" /\ ~Val(probe.log).br

\* A storm was rendered again while a flash of the last strike was lit.
RenderedDuringFlash ==
    /\ probe.first /\ probe.sinceStrike # NoDue /\ probe.due["flashOff"] # NoDue

\* Strikes recur for as long as the storm is shown.
StrikesRecur ==
    [](StormActive => <>(~IsNull(probe.log) /\ Val(probe.log).ev = "strike"
                          /\ probe.sinceStrike = 0))


\* What one theme application with the pair (precip, sky) at hour h has made
\* of the component s, as the component t.
ApplicationDone(s, t, precip, sky, h, c) ==
    LET changed == s.currentTheme # "" /\ s.currentTheme # sky
        isPrecip == precip \in {"rain", "storm", "snow"}
    IN
    \* the cross-fade and the delayed treeline rebuild
    /\ (t.skyPrev # s.skyPrev) <=> changed
    /\ changed => /\ t.skyPrev = s.currentTheme
                  /\ t.treeQ = Append(s.treeQ, sky)
                  /\ t.treeFilter = "brightness(0)"
                  /\ t.treeFill = s.treeFill
    /\ ~changed => /\ t.treeQ = s.treeQ
                   /\ t.treeFill = sky
                   /\ t.treeFilter = TreeBrightness(isPrecip)
    \* loops and schedulers armed before the application are gone
    /\ \A f \in t.frames : ~f.stale
    /\ \A x \in t.timers : x.kind \in {"strike", "shoot"} => ~x.stale
    \* the canvas holds nothing of the old loop
    /\ t.canvas = IF isPrecip THEN precip ELSE ""
    \* the old particle nodes are gone, the anchors are there
    /\ t.shootStars = 0
    /\ t.stars > 0 => ~isPrecip /\ sky = "night"
    /\ t.fireflies > 0 => ~isPrecip /\ sky = "night"
    /\ t.mist # "" => ~isPrecip /\ t.mist = sky
    /\ t.streaks > 0 => ~isPrecip
    /\ t.anchors = {"wx-moon", "wx-sun-wrap"}
    \* the systems of the pair are armed
    /\ (\E f \in t.frames : f.type = precip) <=> isPrecip
    /\ (\E x \in t.timers : x.kind = "strike") <=> precip = "storm"
    /\ (\E x \in t.timers : x.kind = "shoot") <=> (~isPrecip /\ sky = "night")
    \* the sun and the moon stand where positionCelestialBodies puts them
    /\ t = PositionCelestialBodies(t, t.celestialData, h, c)

\* C26: a theme application starts the cross-fade and the delayed treeline
\* rebuild exactly when a previous sky theme exists and differs from the new
\* one (not on the first render, not when only the precipitation changed);
\* every application cancels the frame loop and the scheduler timers, blanks
\* the canvas, removes the old particle nodes but not the sun and moon
\* anchors, arms the particle systems of the new pair and repositions the sun
\* and the moon.
C26_ThemeApplication ==
    [][ /\ \A w \in ObsDisplay \cup ObsLightning,
               t \in {props.timeOverride} \cup Overrides :
             (/\ wx.mounted
              /\ props' = [data |-> Some(w), timeOverride |-> t]
              /\ wx' = Render(wx, w, HourNow(t, clock), sunCalc))
               => ApplicationDone(wx, wx', InferTheme(w, HourNow(t, clock), sunCalc),
                                  InferSkyTheme(w, HourNow(t, clock), sunCalc),
                                  HourNow(t, clock), sunCalc)
        /\ (~wx.mounted /\ wx'.mounted /\ ~IsNull(props.data))
               => ApplicationDone(wx, wx', InferTheme(Val(props.data), Hour, sunCalc),
                                  InferSkyTheme(Val(props.data), Hour, sunCalc),
                                  Hour, sunCalc) ]_vars

\* A sky change has been applied: the cross-fade from the old sky has started,
\* the treeline is dimmed and waits for its rebuild, and the sun or the moon,
\* hidden by clearParticles, is shown again.
C26_CrossFadeAndRebuildPending ==
    /\ wx.skyPrev # "" /\ wx.treeQ # << >> /\ wx.treeFilter = "brightness(0)"
    /\ wx.sun.display # "none" \/ wx.moon.display # "none"

\* Rain has been applied and no cross-fade has ever been started.
RainWithoutCrossFade ==
    /\ wx.isPrecip /\ wx.canvas = "rain" /\ wx.skyPrev = "" /\ wx.treeQ = << >>


\* C27: whenever the display has been rendered and no treeline rebuild is
\* pending, the treeline is drawn in the fill of the current sky theme, at
\* brightness 0.45 if a precipitation theme is active and at full brightness
\* if not, whatever theme applications, however close together, and resizes
\* came before.
C27_TreelineMatchesSky ==
    (wx.rendered /\ wx.treeQ = << >>) =>
        /\ wx.treeFill = wx.currentTheme
        /\ wx.treeFilter = IF wx.cond \in {"rain", "storm", "snow"}
                           THEN "brightness(0.45)" ELSE "brightness(1)"

\* Several sky changes came within the rebuild delay, the rebuilds have all
\* fired, and precipitation is falling.
C27_BurstOfRebuildsDone ==
    /\ wx.treeQ = << >> /\ probe.deep >= 2 /\ wx.isPrecip

\* The treeline shows an older sky's fill while rebuilds are pending.
OlderFillWhilePending ==
    /\ Len(wx.treeQ) >= 2 /\ wx.treeFill # wx.currentTheme
    /\ wx.treeFill # Head(wx.treeQ)


\* C28: the pool of the theme shown has 150 drops for rain, 320 for storm and
\* 200 flakes for snow, and a frame step neither adds nor removes a particle;
\* once step() has moved the pool on a canvas of the present size, every
\* raindrop has y <= height, and every snowflake has y <= height + r and
\* -r <= x <= width + r.
C28_PoolsStayInBounds ==
    /\ wx.cond = "rain" => wx.drops = 150
    /\ wx.cond = "storm" => wx.drops = 320
    /\ wx.cond = "snow" => wx.flakes = 200
    /\ (PoolOf(wx.cond) = probe.follow) => Len(probe.pool) = 1
    /\ probe.stepped =>
         \A i \in 1..Len(probe.pool) :
            LET q == probe.pool[i] IN
            IF probe.follow = "drops" THEN q.y <= probe.H
            ELSE /\ q.y <= probe.H + q.r
                 /\ 0 - q.r <= q.x /\ q.x <= probe.W + q.r

\* A raindrop that fell off the smaller canvas has been put back above it.
C28_DropPutBackAbove ==
    /\ probe.follow = "drops" /\ probe.stepped /\ probe.H = 10
    /\ Len(probe.pool) = 1 /\ probe.pool[1].y = 0 - probe.pool[1].len

\* A raindrop is falling inside the canvas.
DropFalling ==
    /\ probe.follow = "drops" /\ probe.stepped
    /\ Len(probe.pool) = 1 /\ probe.pool[1].y > 0 /\ probe.pool[1].x > 0

\* A snowflake has drifted off the right edge and come back at the left, and
\* one has fallen off the bottom and come back at the top.
FlakeWrapped ==
    /\ probe.follow = "flakes" /\ probe.stepped
    /\ Len(probe.pool) = 1 /\ probe.pool[1].x = 0 - probe.pool[1].r
FlakePutBackAbove ==
    /\ probe.follow = "flakes" /\ probe.stepped
    /\ Len(probe.pool) = 1 /\ probe.pool[1].y = 0 - probe.pool[1].r

\* The canvas has shrunk under a pool no step has moved since.
DropBelowShrunkCanvas ==
    /\ probe.follow = "drops" /\ ~probe.stepped
    /\ Len(probe.pool) = 1 /\ probe.pool[1].y > probe.H


\* The readings of the observation rendered last.
RenderedHumidity == Val(wx.celestialData).humidity
RenderedUv == Val(wx.celestialData).uv

\* The sway follows the wind: the period never rises and the amplitude never
\* falls as the wind grows, over all pairs of sampled speeds.
SwayFollowsWind ==
    \A a, b \in {Val(x) : x \in WindReadings \ {Null}} :
        a <= b => SwayDur(a) >= SwayDur(b) /\ SwayAmp(a) <= SwayAmp(b)

\* C29: for every observation rendered, the haze opacity is 0 for a humidity
\* of 40 or less or missing, (humidity - 40) / 60 * 0.2 above 40 and never
\* above 0.2; the UV boost is in [0, 1], uv / 11 below 11 and 1 from 11 on;
\* the sway period is non-increasing in the wind and at least 2 s, the sway
\* amplitude non-decreasing and at most 8 px.
C29_DerivedInRange ==
    wx.rendered =>
        /\ (IsNull(RenderedHumidity) \/ Val(RenderedHumidity) <= 40)
              => Val(wx.hazeAlpha) = 0
        /\ (~IsNull(RenderedHumidity) /\ Val(RenderedHumidity) > 40)
              => Val(wx.hazeAlpha) = RoundDiv((Val(RenderedHumidity) - 40) * 200, 60)
        /\ Val(wx.hazeAlpha) <= 200
        /\ Val(wx.uvFactor) >= 0 /\ Val(wx.uvFactor) <= 1000
        /\ (~IsNull(RenderedUv) /\ Val(RenderedUv) < 11)
              => Val(wx.uvFactor) = RoundDiv(Val(RenderedUv) * 1000, 11)
        /\ (~IsNull(RenderedUv) /\ Val(RenderedUv) >= 11) => Val(wx.uvFactor) = 1000
        /\ Val(wx.swayDur) >= 20 /\ Val(wx.swayAmp) <= 80
        /\ Val(wx.swayDur) = SwayDur(RenderedWind)
        /\ Val(wx.swayAmp) = SwayAmp(RenderedWind)
        /\ SwayFollowsWind

\* A humidity reading above 100 has been rendered: the haze is above 0.2.
C29_HazeAboveCap ==
    /\ wx.rendered /\ ~IsNull(RenderedHumidity) /\ Val(RenderedHumidity) > 100
    /\ Val(wx.hazeAlpha) > 200

\* A negative UV reading has been rendered: the boost is below 0.
UvBoostBelowZero ==
    /\ wx.rendered /\ ~IsNull(RenderedUv) /\ Val(wx.uvFactor) < 0

\* The same with the readings on their scales: humidity 0..100, UV 0 or more.
DerivedInRangeOnScale ==
    (/\ wx.rendered
     /\ IsNull(RenderedHumidity) \/ Val(RenderedHumidity) \in 0..100
     /\ IsNull(RenderedUv) \/ Val(RenderedUv) >= 0)
        => C29_DerivedInRange


\* ---------------------------------------------------------------------
\* The slideshow ticker: index, durations, order
\* ---------------------------------------------------------------------

\* The seconds a name's _Ns, _Nm or _NmNs suffix asks for: the pattern is
\* the end of the name before its extension.  Null: the name has no suffix.
SuffixSeconds(name) ==
    LET b == StripExtension(name)
        fulls == {p \in 1..Len(b) :
                    LET mm == NumberUnitAt(b, p, "m") IN
                    /\ ~IsNull(mm)
                    /\ LET e == DigitsEnd(b, Val(mm).next) IN
                       e >= Val(mm).next /\ e + 1 = Len(b) /\ UnitIs(b[Len(b)], "s")}
        ends(unit) == {p \in 1..Len(b) :
                         LET x == NumberUnitAt(b, p, unit) IN
                         ~IsNull(x) /\ Val(x).next = Len(b) + 1}
    IN IF fulls # {} THEN FullAt(b, CHOOSE p \in fulls : TRUE)
       ELSE IF ends("m") # {}
            THEN Some(60 * Val(NumberUnitAt(b, CHOOSE p \in ends("m") : TRUE, "m")).val)
       ELSE IF ends("s") # {}
            THEN Some(Val(NumberUnitAt(b, CHOOSE p \in ends("s") : TRUE, "s")).val)
       ELSE Null

\* The seconds a slide is to stay: the weather duration for the weather and
\* radar slides, an image's suffix when its name has one, the image duration
\* otherwise.
SlideSeconds(s, cfg) ==
    IF s.type \in {"weather", "radar"}
    THEN Val(OrElse(cfg.weather_duration_seconds, Some(15)))
    ELSE Val(OrElse(SuffixSeconds(s.name), OrElse(cfg.image_duration_seconds, Some(10))))

\* The number the ticker counts the index modulo.
SlideCount == IF Len(page.slides) = 0 THEN 1 ELSE Len(page.slides)

\* current is an index of the list, and the slide left last was followed by
\* its successor in list order.
TickerInOrder ==
    page.phase = "running" =>
      /\ page.current \in 0..(SlideCount - 1)
      /\ ~IsNull(page.left) => page.current = (Val(page.left).index + 1) % SlideCount

\* C30: in the slideshow ticker current is always a valid slide index; a
\* slide stays current for its duration in ticks (the weather duration for
\* weather and radar slides, the duration of an image's filename suffix when
\* it has one, the image duration otherwise) and is then followed by the next
\* slide of the list, cyclically.
C30_TickerKeepsDurations ==
    /\ TickerInOrder
    /\ page.phase = "running" /\ Len(page.slides) > 0 =>
         /\ page.shown <= Max2(0, SlideSeconds(page.slides[page.current + 1], page.cfg) - 1)
         /\ ~IsNull(page.left) =>
              Val(page.left).ticks
                = SlideSeconds(page.slides[Val(page.left).index + 1], page.cfg)

\* An image whose name carries _1M before further letters, and no suffix, was
\* left after sixty ticks although the image duration is ten seconds.
C30_MinutesInsideName ==
    /\ page.phase = "running" /\ ~IsNull(page.left) /\ Len(page.slides) > 0
    /\ LET s == page.slides[Val(page.left).index + 1] IN
       /\ s.type = "image" /\ s.name = FileE.name
       /\ IsNull(SuffixSeconds(s.name))
       /\ page.cfg.image_duration_seconds = Some(10)
       /\ Val(page.left).ticks = 60

\* An image whose suffix asks for zero seconds was left after one tick.
ZeroSecondsStaysOneTick ==
    /\ page.phase = "running" /\ ~IsNull(page.left) /\ Len(page.slides) > 0
    /\ LET s == page.slides[Val(page.left).index + 1] IN
       /\ s.type = "image" /\ SuffixSeconds(s.name) = Some(0)
       /\ Val(page.left).ticks = 1

\* What does hold: a slide stays for the ticks currentDuration() gave it, one
\* tick at least, and the index moves on in list order.
TickerKeepsCurrentDuration ==
    /\ TickerInOrder
    /\ page.phase = "running" =>
         /\ page.shown < Max2(1, CurrentDuration(page.slides, page.current, page.cfg))
         /\ ~IsNull(page.left) =>
              Val(page.left).ticks
                = Max2(1, CurrentDuration(page.slides, Val(page.left).index, page.cfg))

\* parseDuration() on the sample names.
ParseDurationSamples ==
    /\ ParseDuration(FileA.name) = Null /\ SuffixSeconds(FileA.name) = Null
    /\ ParseDuration(FileB.name) = Some(3) /\ SuffixSeconds(FileB.name) = Some(3)
    /\ ParseDuration(FileC.name) = Some(0) /\ SuffixSeconds(FileC.name) = Some(0)
    /\ ParseDuration(FileD.name) = Some(62) /\ SuffixSeconds(FileD.name) = Some(62)
    /\ ParseDuration(FileE.name) = Some(60) /\ SuffixSeconds(FileE.name) = Null

\* While the ticker runs every slide of the list is current again and again.
EverySlideRecurs ==
    \A i \in 0..3 :
        [](page.phase = "running" /\ i < SlideCount => <>(page.current = i))


====
